---- MODULE Spec2Model ----
(***************************************************************************)
(* Model of the user-authentication service: the relational store (users,  *)
(* user_permissions, tokens), the clock, and the HTTP handlers of          *)
(* cmd/web/handlers.go running on concurrent request workers.  Every       *)
(* storage statement of a handler is one atomic step; the statements of    *)
(* the models run on the connection pool (m.DB), so each one takes effect  *)
(* on the shared store as soon as it returns.                              *)
(***************************************************************************)
EXTENDS Integers, Sequences, FiniteSets, TLC

VARIABLES users, perms, tokens, now, nextTok, known, pc, loc, resp, workers, reqs, draws, ticks, faults,
          consumed, redeemed, wg, tasks, sends, srv

vars == <<users, perms, tokens, now, nextTok, known, pc, loc, resp, workers, reqs, draws, ticks, faults,
          consumed, redeemed, wg, tasks, sends, srv>>

store == <<users, perms, tokens>>

\* app.wg, the background tasks in flight, the outcomes of the tasks that
\* have ended, and the positions of serve and of its signal goroutine.
bg == <<wg, tasks, sends, srv>>

(***************************************************************************)
(* Bounds of the model.                                                    *)
(***************************************************************************)
NumProcs == 2
MaxTok == 4
MaxTokClock == 3
MaxTokFault == 3
MaxTokSession == 2
MaxTokServe == 3
MaxReqs == 3
MaxTicks == 1
MaxFaults == 1

Procs == 1..NumProcs

(***************************************************************************)
(* Program constants.  Durations are in hours.                             *)
(***************************************************************************)
TokenScopeAccess == "token:access"
TokenScopeRefresh == "token:refresh"
TokenScopeActivation == "token:activate"
TokenScopeResetPwd == "token:resetpwd"
AuthTokenTime == 24
RefreshTokenTime == 168
ActivationTokenTime == 72
ResetPwdTokenTime == 1
PermissionReadUser == "user:read"
PermissionWriteUser == "user:write"
TokenLen == 26
UsernameMin == 3
UsernameMax == 25
PasswordMin == 8
PasswordMax == 72
BcryptCost == 12
DefaultVersion == 1

Scopes == {TokenScopeAccess, TokenScopeRefresh, TokenScopeActivation, TokenScopeResetPwd}

ErrNil == "nil"
ErrNotFound == "not found"
ErrDuplicateUsername == "duplicate username"
ErrDuplicateEmail == "duplicate email"
ErrDuplicateKey == "pq: duplicate key value violates unique constraint"

StatusOK == 200
StatusCreated == 201
StatusUnauthorized == 401
StatusForbidden == 403
StatusUnprocessableEntity == 422
StatusInternalServerError == 500

(***************************************************************************)
(* Strings are sequences of one-character strings, so that the regular     *)
(* expressions and length checks of the validation rules can be computed.  *)
(***************************************************************************)
Upper == {"A", "B", "Q", "Z"}
Lower == {"a", "b", "c", "d", "e", "f", "i", "l", "m", "o", "y", "x"}
Digit == {"1", "2"}
Symbol == {"#", "?", "!", "@", "$", "%", "^", "&", "*", "_", "\\", "-"}

ToLower(c) ==
    CASE c = "A" -> "a"
      [] c = "B" -> "b"
      [] c = "Q" -> "q"
      [] c = "Z" -> "z"
      [] OTHER -> c

\* CITEXT comparison key of an email column value.
CiText(s) == [i \in 1..Len(s) |-> ToLower(s[i])]

\* UsernameRX  ^[a-zA-Z0-9]+$
UsernameRX(s) == Len(s) >= 1 /\ \A i \in 1..Len(s) : s[i] \in Upper \cup Lower \cup Digit

\* EmailRX  ^[a-zA-Z0-9._%+\-]+@[a-zA-Z0-9.\-]+\.[a-zA-Z]{2,}$
EmailRX(s) ==
    \E at \in 1..Len(s) : \E dot \in (at + 2)..Len(s) :
        /\ s[at] = "@"
        /\ s[dot] = "."
        /\ at >= 2
        /\ \A i \in 1..(at - 1) : s[i] \in Upper \cup Lower \cup Digit \cup {".", "_", "%", "+", "-"}
        /\ \A i \in (at + 1)..(dot - 1) : s[i] \in Upper \cup Lower \cup Digit \cup {".", "-"}
        /\ Len(s) - dot >= 2
        /\ \A i \in (dot + 1)..Len(s) : s[i] \in Upper \cup Lower

HasClass(s, class) == \E i \in 1..Len(s) : s[i] \in class

\* validator.New, Validator.AddError, Validator.Check, Validator.Valid:
\* the error map is a set of <<field, message>> pairs with one pair per field.
NewValidator == {}

\* An AddError that overwrites the message a field already has.
AddError_LastWins(v, fld, message) == {e \in v : e[1] # fld} \cup {<<fld, message>>}

AddError(v, fld, message) ==
    IF \E e \in v : e[1] = fld THEN v ELSE v \cup {<<fld, message>>}

Check(v, ok, fld, message) == IF ok THEN v ELSE AddError(v, fld, message)

Valid(v) == Cardinality(v) = 0

CheckStringLength(s, min, max) == Len(s) >= min /\ Len(s) <= max

validateUsername(v, username) ==
    LET v1 == Check(v, username # <<>>, "username", "must be provided")
        v2 == Check(v1, CheckStringLength(username, UsernameMin, UsernameMax), "username",
                    "must be 3-25 characters long")
    IN Check(v2, UsernameRX(username), "username", "must contain only letters and numbers")

validateEmail(v, email) ==
    LET v1 == Check(v, email # <<>>, "email", "must be provided")
    IN Check(v1, EmailRX(email), "email", "must be a valid email address")

validatePassword(v, plain) ==
    LET value == /\ Len(plain) >= PasswordMin
                 /\ Len(plain) <= PasswordMax
                 /\ HasClass(plain, Upper)
                 /\ HasClass(plain, Lower)
                 /\ HasClass(plain, Digit)
                 /\ HasClass(plain, Symbol)
    IN Check(v, value, "password", "must meet the password policy")

ValidateUser(username, email, plain) ==
    validatePassword(validateEmail(validateUsername(NewValidator, username), email), plain)

ValidateEmail(email) == validateEmail(NewValidator, email)

ValidatePassword(plain) == validatePassword(NewValidator, plain)

ValidateLoginUser(username, plain) ==
    validatePassword(validateUsername(NewValidator, username), plain)

\* A ValidateUpdateUser that never checks the password.
ValidateUpdateUser_EmailOnly(email, plain) ==
    IF email # <<>> THEN validateEmail(NewValidator, email) ELSE NewValidator

ValidateUpdateUser(email, plain) ==
    LET v1 == IF email # <<>> THEN validateEmail(NewValidator, email) ELSE NewValidator
    IN IF plain # <<>> THEN validatePassword(v1, plain) ELSE v1

(***************************************************************************)
(* Token plaintexts.  A minted plaintext is the number of the random draw  *)
(* that produced it (16 bytes of crypto/rand never repeat); 0 is a         *)
(* well-formed plaintext that was never minted, -1 a malformed one and -3  *)
(* the empty string.                                                       *)
(***************************************************************************)
Malformed == 0 - 1
Unissued == 0
EmptyPlain == 0 - 3

PlainLen(plain) == IF plain = Malformed THEN 5 ELSE IF plain = EmptyPlain THEN 0 ELSE TokenLen

HashToken(plain) == <<"sha256", plain>>

ValidateToken(plain) ==
    LET v1 == Check(NewValidator, PlainLen(plain) # 0, "token", "must be provided")
    IN Check(v1, PlainLen(plain) = TokenLen, "token", "must be 26 bytes long")

\* Password.Set and Password.Compare (bcrypt with cost 12).
PasswordSet(plain) == <<"bcrypt", BcryptCost, plain>>

\* A comparison that accepts every password.
PasswordCompare_Always(hash, plain) == TRUE

PasswordCompare(hash, plain) == hash[1] = "bcrypt" /\ hash[3] = plain

TTL(scope) ==
    CASE scope = TokenScopeAccess -> AuthTokenTime
      [] scope = TokenScopeRefresh -> RefreshTokenTime
      [] scope = TokenScopeActivation -> ActivationTokenTime
      [] scope = TokenScopeResetPwd -> ResetPwdTokenTime


(***************************************************************************)
(* The relational store.  users is the users table in id order (the id of  *)
(* a row is its position); perms is user_permissions as a set of           *)
(* <<user_id, permission>> rows; tokens is the tokens table as a set of    *)
(* rows [hash, user_id, expiry, scope].                                    *)
(***************************************************************************)
NoUser == [username |-> <<>>, email |-> <<>>, password_hash |-> <<>>, activated |-> FALSE, version |-> 0]

NoToken == [hash |-> <<>>, user_id |-> 0, expiry |-> 0, scope |-> ""]

\* The identity the authenticate middleware gives a request without a
\* bearer credential: the zero User, whose ID is 0.
AnonymousUser == [id |-> 0, username |-> <<>>, email |-> <<>>, activated |-> FALSE]

UserIds(us) == 1..Len(us)

\* An INSERT that does not see the UNIQUE constraint on email.
UserModel_Insert_EmailNotUnique(us, username, email, hash) ==
    IF \E i \in UserIds(us) : us[i].username = username
    THEN [err |-> ErrDuplicateUsername, users |-> us, id |-> 0]
    ELSE [err |-> ErrNil,
          users |-> Append(us, [username |-> username, email |-> email, password_hash |-> hash,
                                activated |-> FALSE, version |-> DefaultVersion]),
          id |-> Len(us) + 1]

\* An INSERT that stores the new account already activated.
UserModel_Insert_Activated(us, username, email, hash) ==
    IF \E i \in UserIds(us) : us[i].username = username
    THEN [err |-> ErrDuplicateUsername, users |-> us, id |-> 0]
    ELSE IF \E i \in UserIds(us) : CiText(us[i].email) = CiText(email)
    THEN [err |-> ErrDuplicateEmail, users |-> us, id |-> 0]
    ELSE [err |-> ErrNil,
          users |-> Append(us, [username |-> username, email |-> email, password_hash |-> hash,
                                activated |-> TRUE, version |-> DefaultVersion]),
          id |-> Len(us) + 1]

\* INSERT INTO users: username is UNIQUE, email is UNIQUE on its CITEXT
\* value; activated and version take their column defaults.  The username
\* constraint is declared, and so checked, before the email constraint.
UserModel_Insert(us, username, email, hash) ==
    IF \E i \in UserIds(us) : us[i].username = username
    THEN [err |-> ErrDuplicateUsername, users |-> us, id |-> 0]
    ELSE IF \E i \in UserIds(us) : CiText(us[i].email) = CiText(email)
    THEN [err |-> ErrDuplicateEmail, users |-> us, id |-> 0]
    ELSE [err |-> ErrNil,
          users |-> Append(us, [username |-> username, email |-> email, password_hash |-> hash,
                                activated |-> FALSE, version |-> DefaultVersion]),
          id |-> Len(us) + 1]

UserModel_GetByUsername(us, username) ==
    IF \E i \in UserIds(us) : us[i].username = username
    THEN LET i == CHOOSE i \in UserIds(us) : us[i].username = username
         IN [err |-> ErrNil, id |-> i, user |-> us[i]]
    ELSE [err |-> ErrNotFound, id |-> 0, user |-> NoUser]

UserModel_GetByEmail(us, email) ==
    IF \E i \in UserIds(us) : CiText(us[i].email) = CiText(email)
    THEN LET i == CHOOSE i \in UserIds(us) : CiText(us[i].email) = CiText(email)
         IN [err |-> ErrNil, id |-> i, user |-> us[i]]
    ELSE [err |-> ErrNotFound, id |-> 0, user |-> NoUser]

\* An UPDATE that leaves the password_hash column alone.
UserModel_Update_KeepsPassword(us, id, email, hash, version) ==
    IF ~(id \in UserIds(us) /\ us[id].version = version)
    THEN [err |-> ErrNotFound, users |-> us]
    ELSE IF \E i \in UserIds(us) \ {id} : CiText(us[i].email) = CiText(email)
    THEN [err |-> ErrDuplicateEmail, users |-> us]
    ELSE [err |-> ErrNil,
          users |-> [us EXCEPT ![id].email = email, ![id].version = version + 1]]

\* An UPDATE that leaves the version column alone.
UserModel_Update_KeepsVersion(us, id, email, hash, version) ==
    IF ~(id \in UserIds(us) /\ us[id].version = version)
    THEN [err |-> ErrNotFound, users |-> us]
    ELSE IF \E i \in UserIds(us) \ {id} : CiText(us[i].email) = CiText(email)
    THEN [err |-> ErrDuplicateEmail, users |-> us]
    ELSE [err |-> ErrNil,
          users |-> [us EXCEPT ![id].email = email, ![id].password_hash = hash]]

\* An UPDATE whose WHERE clause names the id only.
UserModel_Update_AnyVersion(us, id, email, hash, version) ==
    IF id \notin UserIds(us)
    THEN [err |-> ErrNotFound, users |-> us]
    ELSE IF \E i \in UserIds(us) \ {id} : CiText(us[i].email) = CiText(email)
    THEN [err |-> ErrDuplicateEmail, users |-> us]
    ELSE [err |-> ErrNil,
          users |-> [us EXCEPT ![id].email = email, ![id].password_hash = hash,
                               ![id].version = us[id].version + 1]]

\* UPDATE users SET email, password_hash, version = version + 1
\* WHERE id = $3 AND version = $4.
UserModel_Update(us, id, email, hash, version) ==
    IF ~(id \in UserIds(us) /\ us[id].version = version)
    THEN [err |-> ErrNotFound, users |-> us]
    ELSE IF \E i \in UserIds(us) \ {id} : CiText(us[i].email) = CiText(email)
    THEN [err |-> ErrDuplicateEmail, users |-> us]
    ELSE [err |-> ErrNil,
          users |-> [us EXCEPT ![id].email = email, ![id].password_hash = hash,
                               ![id].version = version + 1]]

\* UPDATE users SET activated = TRUE WHERE id = $1.
UserModel_Activate(us, id) ==
    [i \in UserIds(us) |-> IF i = id THEN [us[i] EXCEPT !.activated = TRUE] ELSE us[i]]

\* The lookup predicate without its expiry conjunct.
TokenMatches_NoExpiry(r, scope, hash, t) == r.hash = hash /\ r.scope = scope

\* The lookup predicate without its scope conjunct.
TokenMatches_AnyScope(r, scope, hash, t) == r.hash = hash /\ r.expiry > t

TokenMatches(r, scope, hash, t) == r.hash = hash /\ r.scope = scope /\ r.expiry > t

\* SELECT u.* FROM users u JOIN tokens t JOIN scopes s
\* WHERE t.hash = $1 AND s.name = $2 AND t.expiry > $3.
UserModel_GetToken(us, toks, scope, hash, t) ==
    IF \E r \in toks : TokenMatches(r, scope, hash, t) /\ r.user_id \in UserIds(us)
    THEN LET r == CHOOSE r \in toks : TokenMatches(r, scope, hash, t) /\ r.user_id \in UserIds(us)
         IN [err |-> ErrNil,
             user |-> [id |-> r.user_id, username |-> us[r.user_id].username,
                       email |-> us[r.user_id].email, activated |-> us[r.user_id].activated]]
    ELSE [err |-> ErrNotFound, user |-> AnonymousUser]

\* A token whose stored hash column holds the plaintext itself.
NewToken_StoresPlain(userID, scope, draw, t) ==
    [hash |-> <<"plain", draw>>, user_id |-> userID, expiry |-> t + TTL(scope), scope |-> scope]

\* new: draw is the plaintext drawn from the random source.
NewToken(userID, scope, draw, t) ==
    [hash |-> HashToken(draw), user_id |-> userID, expiry |-> t + TTL(scope), scope |-> scope]

\* An INSERT INTO tokens on a table without its primary key.
TokenModel_insert_NoKey(toks, token) == [err |-> ErrNil, tokens |-> toks \cup {token}]

\* INSERT INTO tokens, whose primary key is (user_id, scope_id).
TokenModel_insert(toks, token) ==
    IF \E r \in toks : r.user_id = token.user_id /\ r.scope = token.scope
    THEN [err |-> ErrDuplicateKey, tokens |-> toks]
    ELSE [err |-> ErrNil, tokens |-> toks \cup {token}]

TokenModel_CreateToken(toks, userID, scope, draw, t) ==
    TokenModel_insert(toks, NewToken(userID, scope, draw, t))

\* A DELETE whose WHERE clause names the account only.
TokenModel_Delete_AllScopes(toks, userID, scope) == {r \in toks : r.user_id # userID}

\* A DELETE whose predicate matches no row.
TokenModel_Delete_Nothing(toks, userID, scope) == toks

\* DELETE FROM tokens WHERE user_id = $1 AND scope = $2.
TokenModel_Delete(toks, userID, scope) ==
    {r \in toks : ~(r.user_id = userID /\ r.scope = scope)}

\* SELECT ... FROM tokens WHERE user_id = $1 AND scope = $2, expired or not.
TokenModel_Get(toks, userID, scope) ==
    IF \E r \in toks : r.user_id = userID /\ r.scope = scope
    THEN [err |-> ErrNil, token |-> CHOOSE r \in toks : r.user_id = userID /\ r.scope = scope]
    ELSE [err |-> ErrNotFound, token |-> NoToken]

\* A grant that replaces the account's earlier grants.
PermissionModel_Add_Replaces(ps, userID, permissions) ==
    IF \E q \in permissions : <<userID, q>> \in ps
    THEN [err |-> ErrDuplicateKey, perms |-> ps]
    ELSE [err |-> ErrNil,
          perms |-> {g \in ps : g[1] # userID} \cup {<<userID, q>> : q \in permissions}]

\* INSERT INTO user_permissions SELECT $1, id FROM permissions WHERE name = ANY($2);
\* the primary key is (user_id, permission_id) and the statement has no
\* ON CONFLICT clause.
PermissionModel_Add(ps, userID, permissions) ==
    IF \E q \in permissions : <<userID, q>> \in ps
    THEN [err |-> ErrDuplicateKey, perms |-> ps]
    ELSE [err |-> ErrNil, perms |-> ps \cup {<<userID, q>> : q \in permissions}]

PermissionModel_Get(ps, userID) == {q \in {PermissionReadUser, PermissionWriteUser} : <<userID, q>> \in ps}

\* A permission check that always succeeds.
Include_Always(permissions, permission) == TRUE

Include(permissions, permission) == permission \in permissions


(***************************************************************************)
(* Request inputs.                                                         *)
(***************************************************************************)
Bob == <<"b", "o", "b">>
Amy == <<"a", "m", "y">>
BobMail == <<"b", "@", "x", ".", "i", "o">>
BobMailUpper == <<"B", "@", "x", ".", "i", "o">>
AmyMail == <<"a", "@", "x", ".", "i", "o">>
BadMail == <<"b", "@", "x">>
Pw1 == <<"A", "b", "c", "d", "e", "f", "1", "!">>
Pw2 == <<"Q", "b", "c", "d", "e", "f", "2", "#">>
BadPw == <<"a", "b", "c">>
Empty == <<>>

RegisterUsernames == {Bob, Amy}
RegisterEmails == {BobMail, AmyMail}
RegisterPasswords == {Pw1, BadPw}
LoginUsernames == {Bob, Amy}
LoginPasswords == {Pw1, Pw2, BadPw}
ResetEmails == {BobMailUpper, AmyMail, BadMail, Empty}
NewPasswords == {Pw2, BadPw}
UpdateEmails == {Empty, BobMailUpper, AmyMail}
UpdatePasswords == {Empty, Pw2, BadPw}

\* The plaintexts a client can present: a malformed one, a well-formed one
\* that was never minted, and the minted ones disclosed to clients so far.
Presentable == {Malformed, Unissued} \cup known

\* An Authorization header: none, one that is not "Bearer <token>", or
\* "Bearer " followed by a plaintext.
NoHeader == 0 - 2
NoBearer == 0 - 4
AuthHeaders == {NoHeader, NoBearer} \cup Presentable

(***************************************************************************)
(* Request workers.  pc[p] is the statement worker p executes next, loc[p] *)
(* the handler's local variables, resp the response a handler has just     *)
(* written (NoResp once it has been delivered to the client).              *)
(***************************************************************************)
NoLoc == [h |-> "none", uid |-> 0, tok |-> Unissued, found |-> FALSE, param |-> <<>>,
          plain |-> <<>>, email |-> <<>>, user |-> NoUser, out |-> <<>>]

NoResp == [h |-> "none", status |-> 0, errors |-> {}, uid |-> 0, tok |-> Unissued, out |-> <<>>]

Elems(seq) == {seq[i] : i \in 1..Len(seq)}

\* A request is taken by the first idle worker (the workers are
\* interchangeable) while fewer than `workers` requests are in flight.  When
\* requests overlap, reqs is the number of requests still to arrive.  draws
\* is the number of plaintexts the random source still yields.
Busy == {q \in Procs : pc[q] # "idle"}

\* serve has not returned: the process is alive.
Running == srv.main # "returned"

\* Worker p is about to execute the statement labelled at.
At(p, at) == Running /\ resp = NoResp /\ pc[p] = at

Begin(p) ==
    /\ At(p, "idle")
    /\ srv.main = "listen"
    /\ \A q \in Procs : q < p => pc[q] # "idle"
    /\ Cardinality(Busy) < workers
    /\ workers > 1 => reqs > 0
    /\ reqs' = IF workers > 1 THEN reqs - 1 ELSE reqs
    /\ UNCHANGED <<workers, draws>>

Goto(p, label, l) ==
    /\ pc' = [pc EXCEPT ![p] = label]
    /\ loc' = [loc EXCEPT ![p] = l]
    /\ resp' = resp

writeJSON(p, h, status, errors, uid, tok, out) ==
    /\ pc' = [pc EXCEPT ![p] = "idle"]
    /\ loc' = [loc EXCEPT ![p] = NoLoc]
    /\ resp' = [h |-> h, status |-> status, errors |-> errors, uid |-> uid, tok |-> tok, out |-> out]

serverErrorResponse(p, l, err) ==
    writeJSON(p, l.h, StatusInternalServerError, {<<"error", err>>}, l.uid, l.tok, <<>>)

failedValidationResponse(p, l, errors) ==
    writeJSON(p, l.h, StatusUnprocessableEntity, errors, l.uid, l.tok, <<>>)

\* A refusal whose message tells whether an account was resolved.
invalidCredentialsResponse_NamesAccount(p, l) ==
    writeJSON(p, l.h, StatusUnauthorized,
              {<<"error", IF l.uid = 0 THEN "unknown username" ELSE "wrong password">>},
              l.uid, l.tok, <<>>)

invalidCredentialsResponse(p, l) ==
    writeJSON(p, l.h, StatusUnauthorized, {<<"error", "invalid authentication credentials">>},
              l.uid, l.tok, <<>>)

invalidRefreshTokenResponse(p, l) ==
    writeJSON(p, l.h, StatusUnauthorized, {<<"error", "unknown or invalid refresh token">>},
              l.uid, l.tok, <<>>)

invalidAuthenticationTokenResponse(p, l) ==
    writeJSON(p, l.h, StatusForbidden, {<<"error", "invalid or missing authentication token">>},
              l.uid, l.tok, <<>>)

unauthorizedActionResponse(p, l) ==
    writeJSON(p, l.h, StatusForbidden,
              {<<"error", "you do not have permission to perform this action">>},
              l.uid, l.tok, <<>>)

\* app.backgroundTask(fn): wg.Add(1) and a goroutine that will run fn, here
\* the mailer.Send of the plaintext tok minted by handler h for account uid.
MailTask(h, uid, tok) == [h |-> h, uid |-> uid, tok |-> tok]

backgroundTask(t) ==
    /\ wg' = wg + 1
    /\ tasks' = tasks \cup {t}

\* One Tokens.Delete statement of a handler.
DeleteStep(p, at, scope, next) ==
    /\ At(p, at)
    /\ tokens' = TokenModel_Delete(tokens, loc[p].uid, scope)
    /\ Goto(p, next, loc[p])
    /\ UNCHANGED <<users, perms, now, nextTok, known, workers, reqs, draws, ticks, faults, consumed, redeemed, bg>>

\* One Tokens.CreateToken statement of a handler.
CreateStep(p, at, scope, next) ==
    /\ At(p, at)
    /\ draws > 0
    /\ draws' = draws - 1
    /\ nextTok' = nextTok + 1
    /\ LET c == TokenModel_CreateToken(tokens, loc[p].uid, scope, nextTok, now)
       IN IF c.err # ErrNil
          THEN tokens' = tokens /\ serverErrorResponse(p, loc[p], c.err)
          ELSE tokens' = c.tokens /\ Goto(p, next, [loc[p] EXCEPT !.out = Append(@, nextTok)])
    /\ UNCHANGED <<users, perms, now, known, workers, reqs, ticks, faults, consumed, redeemed, bg>>

(***************************************************************************)
(* createUserHandler                                                       *)
(***************************************************************************)
RegisterStart(p, username, email, plain) ==
    /\ Begin(p)
    /\ LET l == [NoLoc EXCEPT !.h = "register"]
           v == ValidateUser(username, email, plain)
           ins == UserModel_Insert(users, username, email, PasswordSet(plain))
       IN IF ~Valid(v)
          THEN users' = users /\ failedValidationResponse(p, l, v)
          ELSE IF ins.err = ErrDuplicateUsername
          THEN /\ users' = users
               /\ failedValidationResponse(p, l,
                      AddError(v, "username", "a user with this username already exists"))
          ELSE IF ins.err = ErrDuplicateEmail
          THEN /\ users' = users
               /\ failedValidationResponse(p, l,
                      AddError(v, "email", "a user with this email address already exists"))
          ELSE users' = ins.users /\ Goto(p, "reg_perm", [l EXCEPT !.uid = ins.id])
    /\ UNCHANGED <<perms, tokens, now, nextTok, known, ticks, faults, consumed, redeemed, bg>>

RegisterPermission(p) ==
    /\ At(p, "reg_perm")
    /\ LET add == PermissionModel_Add(perms, loc[p].uid, {PermissionReadUser})
       IN IF add.err # ErrNil
          THEN perms' = perms /\ serverErrorResponse(p, loc[p], add.err)
          ELSE perms' = add.perms /\ Goto(p, "reg_token", loc[p])
    /\ UNCHANGED <<users, tokens, now, nextTok, known, workers, reqs, draws, ticks, faults, consumed, redeemed, bg>>

RegisterToken(p) == CreateStep(p, "reg_token", TokenScopeActivation, "commit")

(***************************************************************************)
(* activateUserHandler                                                     *)
(***************************************************************************)
ActivateStart(p, tok) ==
    /\ Begin(p)
    /\ LET l == [NoLoc EXCEPT !.h = "activate", !.tok = tok]
           v == ValidateToken(tok)
           g == UserModel_GetToken(users, tokens, TokenScopeActivation, HashToken(tok), now)
       IN IF ~Valid(v)
          THEN failedValidationResponse(p, l, v)
          ELSE IF g.err = ErrNotFound
          THEN failedValidationResponse(p, l, {<<"token", "invalid or expired activation token">>})
          ELSE Goto(p, "act_activate", [l EXCEPT !.uid = g.user.id])
    /\ UNCHANGED <<users, perms, tokens, now, nextTok, known, ticks, faults, consumed, redeemed, bg>>

ActivateUser(p) ==
    /\ At(p, "act_activate")
    /\ users' = UserModel_Activate(users, loc[p].uid)
    /\ Goto(p, "act_perm", loc[p])
    /\ UNCHANGED <<perms, tokens, now, nextTok, known, workers, reqs, draws, ticks, faults, consumed, redeemed, bg>>

ActivatePermission(p) ==
    /\ At(p, "act_perm")
    /\ LET add == PermissionModel_Add(perms, loc[p].uid, {PermissionWriteUser})
       IN IF add.err # ErrNil
          THEN perms' = perms /\ serverErrorResponse(p, loc[p], add.err)
          ELSE perms' = add.perms /\ Goto(p, "act_delete", loc[p])
    /\ UNCHANGED <<users, tokens, now, nextTok, known, workers, reqs, draws, ticks, faults, consumed, redeemed, bg>>

ActivateDelete(p) == DeleteStep(p, "act_delete", TokenScopeActivation, "commit")

(***************************************************************************)
(* createAuthTokenHandler                                                  *)
(***************************************************************************)
LoginStart(p, username, plain) ==
    /\ Begin(p)
    /\ LET l == [NoLoc EXCEPT !.h = "login"]
           v == ValidateLoginUser(username, plain)
           g == UserModel_GetByUsername(users, username)
       IN IF ~Valid(v)
          THEN failedValidationResponse(p, l, v)
          ELSE IF g.err = ErrNotFound
          THEN invalidCredentialsResponse(p, l)
          ELSE IF ~PasswordCompare(g.user.password_hash, plain)
          THEN invalidCredentialsResponse(p, [l EXCEPT !.uid = g.id])
          ELSE Goto(p, "login_get_access", [l EXCEPT !.uid = g.id])
    /\ UNCHANGED <<users, perms, tokens, now, nextTok, known, ticks, faults, consumed, redeemed, bg>>

LoginGetAccess(p) ==
    /\ At(p, "login_get_access")
    /\ LET g == TokenModel_Get(tokens, loc[p].uid, TokenScopeAccess)
       IN Goto(p, "login_get_refresh", [loc[p] EXCEPT !.found = (g.err = ErrNil)])
    /\ UNCHANGED <<users, perms, tokens, now, nextTok, known, workers, reqs, draws, ticks, faults, consumed, redeemed, bg>>

LoginGetRefresh(p) ==
    /\ At(p, "login_get_refresh")
    /\ LET g == TokenModel_Get(tokens, loc[p].uid, TokenScopeRefresh)
       IN IF loc[p].found \/ g.err = ErrNil
          THEN Goto(p, "login_del_access", [loc[p] EXCEPT !.found = TRUE])
          ELSE Goto(p, "login_create_access", loc[p])
    /\ UNCHANGED <<users, perms, tokens, now, nextTok, known, workers, reqs, draws, ticks, faults, consumed, redeemed, bg>>

LoginDeleteAccess(p) == DeleteStep(p, "login_del_access", TokenScopeAccess, "login_del_refresh")

LoginDeleteRefresh(p) == DeleteStep(p, "login_del_refresh", TokenScopeRefresh, "login_create_access")

LoginCreateAccess(p) == CreateStep(p, "login_create_access", TokenScopeAccess, "login_create_refresh")

LoginCreateRefresh(p) == CreateStep(p, "login_create_refresh", TokenScopeRefresh, "commit")

(***************************************************************************)
(* refreshAuthTokenHandler                                                 *)
(***************************************************************************)
RefreshStart(p, tok) ==
    /\ Begin(p)
    /\ LET l == [NoLoc EXCEPT !.h = "refresh", !.tok = tok]
           v == ValidateToken(tok)
           g == UserModel_GetToken(users, tokens, TokenScopeRefresh, HashToken(tok), now)
       IN IF ~Valid(v)
          THEN failedValidationResponse(p, l, v)
          ELSE IF g.err = ErrNotFound
          THEN invalidRefreshTokenResponse(p, l)
          ELSE Goto(p, "refresh_del_refresh", [l EXCEPT !.uid = g.user.id])
    /\ UNCHANGED <<users, perms, tokens, now, nextTok, known, ticks, faults, consumed, redeemed, bg>>

RefreshDeleteRefresh(p) == DeleteStep(p, "refresh_del_refresh", TokenScopeRefresh, "refresh_del_access")

RefreshDeleteAccess(p) == DeleteStep(p, "refresh_del_access", TokenScopeAccess, "refresh_create_access")

RefreshCreateAccess(p) == CreateStep(p, "refresh_create_access", TokenScopeAccess, "refresh_create_refresh")

RefreshCreateRefresh(p) == CreateStep(p, "refresh_create_refresh", TokenScopeRefresh, "commit")


(***************************************************************************)
(* authenticate middleware: the identity of the caller, or a rejection.    *)
(***************************************************************************)
\* strings.Split(authHeader, " ") must give "Bearer" and the token.
extractTokenFromHeader(header) == IF header = NoBearer THEN EmptyPlain ELSE header

authenticate(header) ==
    LET token == extractTokenFromHeader(header)
    IN IF header = NoHeader
       THEN [next |-> TRUE, user |-> AnonymousUser]
       ELSE IF token = EmptyPlain
       THEN [next |-> FALSE, user |-> AnonymousUser]
       ELSE IF ~Valid(ValidateToken(token))
       THEN [next |-> FALSE, user |-> AnonymousUser]
       ELSE LET g == UserModel_GetToken(users, tokens, TokenScopeAccess, HashToken(token), now)
            IN [next |-> g.err = ErrNil, user |-> g.user]

IsAnonymous(user) == user = AnonymousUser

(***************************************************************************)
(* deleteAuthTokenHandler behind authenticate                              *)
(***************************************************************************)
LogoutStart(p, header) ==
    /\ Begin(p)
    /\ LET l == [NoLoc EXCEPT !.h = "logout", !.tok = header]
           a == authenticate(header)
       IN IF ~a.next
          THEN invalidAuthenticationTokenResponse(p, l)
          ELSE Goto(p, "logout_del_access", [l EXCEPT !.uid = a.user.id])
    /\ UNCHANGED <<users, perms, tokens, now, nextTok, known, ticks, faults, consumed, redeemed, bg>>

LogoutDeleteAccess(p) == DeleteStep(p, "logout_del_access", TokenScopeAccess, "logout_del_refresh")

LogoutDeleteRefresh(p) == DeleteStep(p, "logout_del_refresh", TokenScopeRefresh, "commit")

(***************************************************************************)
(* requestPasswordResetHandler                                             *)
(***************************************************************************)
ResetStart(p, email) ==
    /\ Begin(p)
    /\ LET l == [NoLoc EXCEPT !.h = "reset"]
           v == ValidateEmail(email)
           g == UserModel_GetByEmail(users, email)
       IN IF ~Valid(v)
          THEN failedValidationResponse(p, l, v)
          ELSE IF g.err = ErrNotFound
          THEN invalidCredentialsResponse(p, l)
          ELSE Goto(p, "reset_get", [l EXCEPT !.uid = g.id])
    /\ UNCHANGED <<users, perms, tokens, now, nextTok, known, ticks, faults, consumed, redeemed, bg>>

ResetGet(p) ==
    /\ At(p, "reset_get")
    /\ LET g == TokenModel_Get(tokens, loc[p].uid, TokenScopeResetPwd)
       IN IF g.err = ErrNil
          THEN Goto(p, "reset_delete", loc[p])
          ELSE Goto(p, "reset_create", loc[p])
    /\ UNCHANGED <<users, perms, tokens, now, nextTok, known, workers, reqs, draws, ticks, faults, consumed, redeemed, bg>>

ResetDelete(p) == DeleteStep(p, "reset_delete", TokenScopeResetPwd, "reset_create")

\* CreateToken, then the mail task and writeJSON(w, 200, envelope{"token":
\* token.Plain}): out is the token member of the response body.
ResetCreate(p) ==
    /\ At(p, "reset_create")
    /\ draws > 0
    /\ draws' = draws - 1
    /\ nextTok' = nextTok + 1
    /\ LET c == TokenModel_CreateToken(tokens, loc[p].uid, TokenScopeResetPwd, nextTok, now)
       IN IF c.err # ErrNil
          THEN /\ tokens' = tokens
               /\ known' = known
               /\ UNCHANGED <<wg, tasks>>
               /\ serverErrorResponse(p, loc[p], c.err)
          ELSE /\ tokens' = c.tokens
               /\ known' = known \cup {nextTok}
               /\ backgroundTask(MailTask("reset", loc[p].uid, nextTok))
               /\ writeJSON(p, "reset", StatusOK, {}, loc[p].uid, loc[p].tok, <<nextTok>>)
    /\ UNCHANGED <<users, perms, now, workers, reqs, ticks, faults, consumed, redeemed, sends, srv>>

(***************************************************************************)
(* updatePasswordHandler                                                   *)
(***************************************************************************)
PasswordStart(p, tok, plain) ==
    /\ Begin(p)
    /\ LET l == [NoLoc EXCEPT !.h = "password", !.tok = tok, !.plain = plain]
           vt == ValidateToken(tok)
           vp == ValidatePassword(plain)
           g == UserModel_GetToken(users, tokens, TokenScopeResetPwd, HashToken(tok), now)
       IN IF ~Valid(vt)
          THEN failedValidationResponse(p, l, vt)
          ELSE IF ~Valid(vp)
          THEN failedValidationResponse(p, l, vp)
          ELSE IF g.err = ErrNotFound
          THEN invalidCredentialsResponse(p, l)
          ELSE Goto(p, "password_get_user",
                    [l EXCEPT !.uid = g.user.id, !.user = [NoUser EXCEPT !.username = g.user.username]])
    /\ UNCHANGED <<users, perms, tokens, now, nextTok, known, ticks, faults, consumed, redeemed, bg>>

PasswordGetUser(p) ==
    /\ At(p, "password_get_user")
    /\ LET g == UserModel_GetByUsername(users, loc[p].user.username)
       IN IF g.err = ErrNotFound
          THEN invalidCredentialsResponse(p, loc[p])
          ELSE Goto(p, "password_update",
                    [loc[p] EXCEPT !.uid = g.id,
                                   !.user = [g.user EXCEPT !.password_hash = PasswordSet(loc[p].plain)]])
    /\ UNCHANGED <<users, perms, tokens, now, nextTok, known, workers, reqs, draws, ticks, faults, consumed, redeemed, bg>>

PasswordUpdate(p) ==
    /\ At(p, "password_update")
    /\ LET u == loc[p].user
           upd == UserModel_Update(users, loc[p].uid, u.email, u.password_hash, u.version)
       IN IF upd.err = ErrNotFound
          THEN users' = users /\ invalidCredentialsResponse(p, loc[p])
          ELSE IF upd.err # ErrNil
          THEN users' = users /\ serverErrorResponse(p, loc[p], upd.err)
          ELSE users' = upd.users /\ Goto(p, "password_delete", loc[p])
    /\ UNCHANGED <<perms, tokens, now, nextTok, known, workers, reqs, draws, ticks, faults, consumed, redeemed, bg>>

PasswordDelete(p) == DeleteStep(p, "password_delete", TokenScopeResetPwd, "commit")

(***************************************************************************)
(* updateAccountHandler behind authenticate and requirePermission          *)
(***************************************************************************)
\* The middleware chain reads only the Authorization header; the handler
\* reads the :username parameter and the body after requirePermission.
AccountStart(p, header) ==
    /\ Begin(p)
    /\ LET l == [NoLoc EXCEPT !.h = "account", !.tok = header]
           a == authenticate(header)
       IN IF ~a.next
          THEN invalidAuthenticationTokenResponse(p, l)
          ELSE IF IsAnonymous(a.user)
          THEN invalidAuthenticationTokenResponse(p, l)
          ELSE IF ~a.user.activated
          THEN unauthorizedActionResponse(p, [l EXCEPT !.uid = a.user.id])
          ELSE Goto(p, "account_perms",
                    [l EXCEPT !.uid = a.user.id, !.user = [NoUser EXCEPT !.username = a.user.username]])
    /\ UNCHANGED <<users, perms, tokens, now, nextTok, known, ticks, faults, consumed, redeemed, bg>>

AccountPermissions(p, param, email, plain) ==
    /\ At(p, "account_perms")
    /\ LET userPermissions == PermissionModel_Get(perms, loc[p].uid)
           l == [loc[p] EXCEPT !.param = param, !.email = email, !.plain = plain]
           v == ValidateUpdateUser(email, plain)
       IN IF ~(Include(userPermissions, PermissionWriteUser) /\ Include(userPermissions, PermissionReadUser))
          THEN unauthorizedActionResponse(p, loc[p])
          ELSE IF l.user.username # param
          THEN unauthorizedActionResponse(p, l)
          ELSE IF ~Valid(v)
          THEN failedValidationResponse(p, l, v)
          ELSE Goto(p, "account_get_user", l)
    /\ UNCHANGED <<users, perms, tokens, now, nextTok, known, workers, reqs, draws, ticks, faults, consumed, redeemed, bg>>

\* GetByUsername, then the changes applied to the working copy dbUser.
AccountGetUser(p) ==
    /\ At(p, "account_get_user")
    /\ LET g == UserModel_GetByUsername(users, loc[p].user.username)
           u1 == IF loc[p].plain # <<>>
                 THEN [g.user EXCEPT !.password_hash = PasswordSet(loc[p].plain)]
                 ELSE g.user
           u2 == IF loc[p].email # <<>>
                 THEN [u1 EXCEPT !.email = loc[p].email, !.activated = FALSE]
                 ELSE u1
       IN IF g.err = ErrNotFound
          THEN invalidAuthenticationTokenResponse(p, loc[p])
          ELSE Goto(p, "account_update", [loc[p] EXCEPT !.uid = g.id, !.user = u2])
    /\ UNCHANGED <<users, perms, tokens, now, nextTok, known, workers, reqs, draws, ticks, faults, consumed, redeemed, bg>>

AccountUpdate(p) ==
    /\ At(p, "account_update")
    /\ LET u == loc[p].user
           upd == UserModel_Update(users, loc[p].uid, u.email, u.password_hash, u.version)
       IN IF upd.err = ErrDuplicateEmail
          THEN /\ users' = users
               /\ failedValidationResponse(p, loc[p],
                      {<<"email", "a user with this email address already exists">>})
          ELSE IF upd.err # ErrNil
          THEN users' = users /\ serverErrorResponse(p, loc[p], upd.err)
          ELSE users' = upd.users /\ Goto(p, "account_get_token", loc[p])
    /\ UNCHANGED <<perms, tokens, now, nextTok, known, workers, reqs, draws, ticks, faults, consumed, redeemed, bg>>

AccountGetToken(p) ==
    /\ At(p, "account_get_token")
    /\ LET g == TokenModel_Get(tokens, loc[p].uid, TokenScopeActivation)
       IN IF g.err = ErrNil
          THEN Goto(p, "account_delete", loc[p])
          ELSE Goto(p, "account_create", loc[p])
    /\ UNCHANGED <<users, perms, tokens, now, nextTok, known, workers, reqs, draws, ticks, faults, consumed, redeemed, bg>>

AccountDelete(p) == DeleteStep(p, "account_delete", TokenScopeActivation, "account_create")

AccountCreate(p) == CreateStep(p, "account_create", TokenScopeActivation, "commit")

(***************************************************************************)
(* getAccountHandler behind authenticate and requirePermission(user:read)  *)
(***************************************************************************)
GetAccountStart(p, header) ==
    /\ Begin(p)
    /\ LET l == [NoLoc EXCEPT !.h = "get_account", !.tok = header]
           a == authenticate(header)
       IN IF ~a.next
          THEN invalidAuthenticationTokenResponse(p, l)
          ELSE IF IsAnonymous(a.user)
          THEN invalidAuthenticationTokenResponse(p, l)
          ELSE IF ~a.user.activated
          THEN unauthorizedActionResponse(p, [l EXCEPT !.uid = a.user.id])
          ELSE Goto(p, "getacc_perms",
                    [l EXCEPT !.uid = a.user.id, !.user = [NoUser EXCEPT !.username = a.user.username]])
    /\ UNCHANGED <<users, perms, tokens, now, nextTok, known, ticks, faults, consumed, redeemed, bg>>

GetAccountPermissions(p, param) ==
    /\ At(p, "getacc_perms")
    /\ LET userPermissions == PermissionModel_Get(perms, loc[p].uid)
           l == [loc[p] EXCEPT !.param = param]
       IN IF ~Include(userPermissions, PermissionReadUser)
          THEN unauthorizedActionResponse(p, loc[p])
          ELSE IF l.user.username # param
          THEN unauthorizedActionResponse(p, l)
          ELSE Goto(p, "getacc_get_user", l)
    /\ UNCHANGED <<users, perms, tokens, now, nextTok, known, workers, reqs, draws, ticks, faults, consumed, redeemed, bg>>

\* GetByUsername and the response envelope{"user": dbUser}.
GetAccountUser(p) ==
    /\ At(p, "getacc_get_user")
    /\ LET g == UserModel_GetByUsername(users, loc[p].user.username)
       IN IF g.err = ErrNotFound
          THEN invalidAuthenticationTokenResponse(p, loc[p])
          ELSE writeJSON(p, "get_account", StatusOK, {}, g.id, loc[p].tok, <<>>)
    /\ UNCHANGED <<users, perms, tokens, now, nextTok, known, workers, reqs, draws, ticks, faults, consumed, redeemed, bg>>

(***************************************************************************)
(* tx.Commit and the success response of the handlers that open a          *)
(* transaction.  No statement of the models runs on tx, so Commit and the  *)
(* deferred Rollback change nothing in the store.  createUserHandler and   *)
(* updateAccountHandler then start the background task that mails the new  *)
(* activation token.  The response body carries the plaintexts minted by   *)
(* the request, except that of updateAccountHandler, which carries the     *)
(* account only.  consumed records the plaintexts that successful          *)
(* activations were given, redeemed the plaintexts that successful refresh *)
(* and update-password requests were given.                                *)
(***************************************************************************)
\* The handlers that mail an activation token after tx.Commit.
Mails(h) == h \in {"register", "account"}

Commit(p) ==
    /\ At(p, "commit")
    /\ known' = IF loc[p].h = "account" THEN known ELSE known \cup Elems(loc[p].out)
    /\ IF Mails(loc[p].h)
       THEN backgroundTask(MailTask(loc[p].h, loc[p].uid, loc[p].out[Len(loc[p].out)]))
       ELSE UNCHANGED <<wg, tasks>>
    /\ consumed' = IF loc[p].h = "activate" THEN consumed \cup {loc[p].tok} ELSE consumed
    /\ redeemed' = IF loc[p].h \in {"refresh", "password"}
                   THEN redeemed \cup {<<loc[p].h, loc[p].tok>>}
                   ELSE redeemed
    /\ writeJSON(p, loc[p].h, IF loc[p].h = "register" THEN StatusCreated ELSE StatusOK, {},
                 loc[p].uid, loc[p].tok, IF loc[p].h = "account" THEN <<>> ELSE loc[p].out)
    /\ UNCHANGED <<users, perms, tokens, now, nextTok, workers, reqs, draws, ticks, faults, sends, srv>>

\* The response, and the mail the request has caused, reach the client: the
\* client turns to its next request when no mail of the last one is pending.
Deliver ==
    /\ resp # NoResp
    /\ tasks = {}
    /\ resp' = NoResp
    /\ UNCHANGED <<users, perms, tokens, now, nextTok, known, pc, loc, workers, reqs, draws, ticks, faults, consumed, redeemed, bg>>

(***************************************************************************)
(* The goroutine of backgroundTask: fn() is the mailer.Send of the handler, *)
(* which succeeds, returns an error (logged by fn) or panics (recovered    *)
(* and logged by the deferred function); the deferred wg.Done runs in      *)
(* every case.  Only a mail that was sent discloses its plaintext.         *)
(***************************************************************************)
\* A goroutine that ends without wg.Done.
WaitGroup_Done_Skipped(n) == n

WaitGroup_Done(n) == n - 1

TaskEnd(t, result) ==
    /\ Running
    /\ t \in tasks
    /\ tasks' = tasks \ {t}
    /\ wg' = WaitGroup_Done(wg)
    /\ sends' = sends \cup {[h |-> t.h, uid |-> t.uid, tok |-> t.tok, result |-> result]}
    /\ known' = IF result = "sent" THEN known \cup {t.tok} ELSE known
    /\ UNCHANGED <<users, perms, tokens, now, nextTok, pc, loc, resp, workers, reqs, draws, ticks, faults,
                   consumed, redeemed, srv>>

TaskSend(t) == TaskEnd(t, "sent")

TaskError(t) == TaskEnd(t, "error")

TaskPanic(t) == TaskEnd(t, "panic")

(***************************************************************************)
(* serve and its signal goroutine.  main is the position of serve: in      *)
(* ListenAndServe ("listen"), receiving from shutdownError ("recv") or     *)
(* returned; sig is the position of the goroutine; ret is what serve       *)
(* returned.  When serve has returned, main exits and the process ends.    *)
(***************************************************************************)
Serving == [main |-> "listen", sig |-> "wait", ret |-> "none"]

ErrShutdown == "context deadline exceeded"

\* s := <-quit, then srv.Shutdown(ctx) closes the listener: ListenAndServe
\* returns ErrServerClosed and serve blocks on <-shutdownError.
Signal ==
    /\ srv.main = "listen"
    /\ srv.sig = "wait"
    /\ srv' = [srv EXCEPT !.main = "recv", !.sig = "shutdown"]
    /\ UNCHANGED <<users, perms, tokens, now, nextTok, known, pc, loc, resp, workers, reqs, draws, ticks,
                   faults, consumed, redeemed, wg, tasks, sends>>

\* srv.Shutdown returns: nil once no handler is in flight, or an error (the
\* 30 s deadline passed with a connection still active, or closing the
\* listener failed).
Shutdown(err) ==
    /\ Running
    /\ srv.sig = "shutdown"
    /\ err = ErrNil => Busy = {}
    /\ srv' = [srv EXCEPT !.sig = IF err = ErrNil THEN "wait_tasks" ELSE "send_err"]
    /\ UNCHANGED <<users, perms, tokens, now, nextTok, known, pc, loc, resp, workers, reqs, draws, ticks,
                   faults, consumed, redeemed, wg, tasks, sends>>

\* shutdownError <- err meets err = <-shutdownError: serve returns err.  The
\* goroutine would go on to wg.Wait, but serve no longer waits for it.
SendShutdownError ==
    /\ Running
    /\ srv.sig = "send_err"
    /\ srv.main = "recv"
    /\ srv' = [main |-> "returned", sig |-> "wait_tasks", ret |-> ErrShutdown]
    /\ UNCHANGED <<users, perms, tokens, now, nextTok, known, pc, loc, resp, workers, reqs, draws, ticks,
                   faults, consumed, redeemed, wg, tasks, sends>>

\* app.wg.Wait() returns when the counter is zero.
WaitTasks ==
    /\ Running
    /\ srv.sig = "wait_tasks"
    /\ wg = 0
    /\ srv' = [srv EXCEPT !.sig = "send_nil"]
    /\ UNCHANGED <<users, perms, tokens, now, nextTok, known, pc, loc, resp, workers, reqs, draws, ticks,
                   faults, consumed, redeemed, wg, tasks, sends>>

\* shutdownError <- nil meets err = <-shutdownError: serve returns nil.
SendShutdownNil ==
    /\ Running
    /\ srv.sig = "send_nil"
    /\ srv.main = "recv"
    /\ srv' = [main |-> "returned", sig |-> "done", ret |-> ErrNil]
    /\ UNCHANGED <<users, perms, tokens, now, nextTok, known, pc, loc, resp, workers, reqs, draws, ticks,
                   faults, consumed, redeemed, wg, tasks, sends>>

(***************************************************************************)
(* The clock, and storage failures (a statement that times out or loses    *)
(* its connection returns an error and has no effect).                     *)
(***************************************************************************)
TickSteps == {ResetPwdTokenTime, AuthTokenTime, ActivationTokenTime, RefreshTokenTime}

Tick(d) ==
    /\ resp = NoResp
    /\ ticks < MaxTicks
    /\ ticks' = ticks + 1
    /\ now' = now + d
    /\ UNCHANGED <<users, perms, tokens, nextTok, known, pc, loc, resp, workers, reqs, draws, faults, consumed, redeemed, bg>>

\* A handler that starts its mail task before tx.Commit: the failure of a
\* request that has minted a token still mails it.
StorageFault_MailsFirst(p) ==
    /\ resp = NoResp
    /\ pc[p] # "idle"
    /\ faults < MaxFaults
    /\ faults' = faults + 1
    /\ serverErrorResponse(p, loc[p], "storage failure")
    /\ IF loc[p].out # <<>>
       THEN backgroundTask(MailTask(loc[p].h, loc[p].uid, loc[p].out[Len(loc[p].out)]))
       ELSE UNCHANGED <<wg, tasks>>
    /\ UNCHANGED <<users, perms, tokens, now, nextTok, known, workers, reqs, draws, ticks, consumed, redeemed,
                   sends, srv>>

StorageFault(p) ==
    /\ resp = NoResp
    /\ pc[p] # "idle"
    /\ faults < MaxFaults
    /\ faults' = faults + 1
    /\ serverErrorResponse(p, loc[p], "storage failure")
    /\ UNCHANGED <<users, perms, tokens, now, nextTok, known, workers, reqs, draws, ticks, consumed, redeemed, bg>>

Quiet ==
    /\ now = 0
    /\ pc = [p \in Procs |-> "idle"]
    /\ loc = [p \in Procs |-> NoLoc]
    /\ resp = NoResp
    /\ ticks = 0
    /\ faults = 0
    /\ consumed = {}
    /\ redeemed = {}
    /\ wg = 0
    /\ tasks = {}
    /\ sends = {}
    /\ srv = Serving

\* The state after construction: an empty store, one request at a time.
InitStore(d) ==
    /\ users = <<>>
    /\ perms = {}
    /\ tokens = {}
    /\ nextTok = 1
    /\ known = {}
    /\ workers = 1
    /\ reqs = 0
    /\ draws = d
    /\ Quiet

Init == InitStore(MaxTok)

InitClock == InitStore(MaxTokClock)

InitFault == InitStore(MaxTokFault)

\* The store after bob registered (plaintext 1), activated his account,
\* logged in (plaintexts 2 and 3) and requested a password reset (plaintext
\* 4), built by the statements those requests execute.
BobUsers == UserModel_Activate(UserModel_Insert(<<>>, Bob, BobMail, PasswordSet(Pw1)).users, 1)

BobPerms == PermissionModel_Add(PermissionModel_Add({}, 1, {PermissionReadUser}).perms, 1,
                                {PermissionWriteUser}).perms

BobAccess == TokenModel_CreateToken({}, 1, TokenScopeAccess, 2, 0).tokens

BobSession == TokenModel_CreateToken(BobAccess, 1, TokenScopeRefresh, 3, 0).tokens

BobTokens == TokenModel_CreateToken(BobSession, 1, TokenScopeResetPwd, 4, 0).tokens

\* One request at a time, on bob's store.
InitSession ==
    /\ users = BobUsers
    /\ perms = BobPerms
    /\ tokens = BobTokens
    /\ nextTok = 5
    /\ known = {1, 2, 3, 4}
    /\ workers = 1
    /\ reqs = 0
    /\ draws = MaxTokSession
    /\ Quiet

\* Overlapping requests: NumProcs workers take MaxReqs requests in any
\* interleaving, on the empty store or on bob's.
InitConc ==
    /\ \/ /\ users = <<>>
          /\ perms = {}
          /\ tokens = {}
          /\ nextTok = 1
          /\ known = {}
       \/ /\ users = BobUsers
          /\ perms = BobPerms
          /\ tokens = BobTokens
          /\ nextTok = 5
          /\ known = {1, 2, 3, 4}
    /\ workers = NumProcs
    /\ reqs = MaxReqs
    /\ draws = 2 * MaxReqs
    /\ Quiet

Next ==
    \/ \E p \in Procs, username \in RegisterUsernames, email \in RegisterEmails, plain \in RegisterPasswords :
           RegisterStart(p, username, email, plain)
    \/ \E p \in Procs : RegisterPermission(p)
    \/ \E p \in Procs : RegisterToken(p)
    \/ \E p \in Procs, tok \in Presentable : ActivateStart(p, tok)
    \/ \E p \in Procs : ActivateUser(p)
    \/ \E p \in Procs : ActivatePermission(p)
    \/ \E p \in Procs : ActivateDelete(p)
    \/ \E p \in Procs, username \in LoginUsernames, plain \in LoginPasswords : LoginStart(p, username, plain)
    \/ \E p \in Procs : LoginGetAccess(p)
    \/ \E p \in Procs : LoginGetRefresh(p)
    \/ \E p \in Procs : LoginDeleteAccess(p)
    \/ \E p \in Procs : LoginDeleteRefresh(p)
    \/ \E p \in Procs : LoginCreateAccess(p)
    \/ \E p \in Procs : LoginCreateRefresh(p)
    \/ \E p \in Procs, tok \in Presentable : RefreshStart(p, tok)
    \/ \E p \in Procs : RefreshDeleteRefresh(p)
    \/ \E p \in Procs : RefreshDeleteAccess(p)
    \/ \E p \in Procs : RefreshCreateAccess(p)
    \/ \E p \in Procs : RefreshCreateRefresh(p)
    \/ \E p \in Procs, header \in AuthHeaders : LogoutStart(p, header)
    \/ \E p \in Procs : LogoutDeleteAccess(p)
    \/ \E p \in Procs : LogoutDeleteRefresh(p)
    \/ \E p \in Procs, email \in ResetEmails : ResetStart(p, email)
    \/ \E p \in Procs : ResetGet(p)
    \/ \E p \in Procs : ResetDelete(p)
    \/ \E p \in Procs : ResetCreate(p)
    \/ \E p \in Procs, tok \in Presentable, plain \in NewPasswords : PasswordStart(p, tok, plain)
    \/ \E p \in Procs : PasswordGetUser(p)
    \/ \E p \in Procs : PasswordUpdate(p)
    \/ \E p \in Procs : PasswordDelete(p)
    \/ \E p \in Procs, header \in AuthHeaders : AccountStart(p, header)
    \/ \E p \in Procs, param \in LoginUsernames, email \in UpdateEmails, plain \in UpdatePasswords :
           AccountPermissions(p, param, email, plain)
    \/ \E p \in Procs : AccountGetUser(p)
    \/ \E p \in Procs : AccountUpdate(p)
    \/ \E p \in Procs : AccountGetToken(p)
    \/ \E p \in Procs : AccountDelete(p)
    \/ \E p \in Procs : AccountCreate(p)
    \/ \E p \in Procs, header \in AuthHeaders : GetAccountStart(p, header)
    \/ \E p \in Procs, param \in LoginUsernames : GetAccountPermissions(p, param)
    \/ \E p \in Procs : GetAccountUser(p)
    \/ \E p \in Procs : Commit(p)
    \/ \E t \in tasks : TaskSend(t)
    \/ Deliver

NextClock ==
    \/ Next
    \/ \E d \in TickSteps : Tick(d)

NextFault ==
    \/ Next
    \/ \E p \in Procs : StorageFault(p)

\* One request at a time, on a store that starts empty.
Spec == Init /\ [][Next]_vars

\* The same, with the clock advancing.
SpecClock == InitClock /\ [][NextClock]_vars

\* The same, with storage statements that fail.
SpecFault == InitFault /\ [][NextFault]_vars

\* One request at a time on the store of a logged-in account, with the
\* clock advancing.
SpecSession == InitSession /\ [][NextClock]_vars

\* Overlapping requests.
SpecConc == InitConc /\ [][Next]_vars

\* Registrations and password-reset requests, one at a time, whose mail
\* tasks succeed, fail or panic, while the process is told to shut down.
InitServe == InitStore(MaxTokServe)

NextServe ==
    \/ \E p \in Procs, username \in RegisterUsernames, email \in RegisterEmails, plain \in RegisterPasswords :
           RegisterStart(p, username, email, plain)
    \/ \E p \in Procs : RegisterPermission(p)
    \/ \E p \in Procs : RegisterToken(p)
    \/ \E p \in Procs, email \in ResetEmails : ResetStart(p, email)
    \/ \E p \in Procs : ResetGet(p)
    \/ \E p \in Procs : ResetDelete(p)
    \/ \E p \in Procs : ResetCreate(p)
    \/ \E p \in Procs : Commit(p)
    \/ \E t \in tasks : TaskSend(t)
    \/ \E t \in tasks : TaskError(t)
    \/ \E t \in tasks : TaskPanic(t)
    \/ Deliver
    \/ Signal
    \/ \E err \in {ErrNil, ErrShutdown} : Shutdown(err)
    \/ SendShutdownError
    \/ WaitTasks
    \/ SendShutdownNil

SpecServe == InitServe /\ [][NextServe]_vars

(***************************************************************************)
(* Properties of the store and of the registration workflow.               *)
(***************************************************************************)
TokensOf(uid, scope) == {r \in tokens : r.user_id = uid /\ r.scope = scope}

Quiescent == \A p \in Procs : pc[p] = "idle"

\* C1: in every reachable state, whatever the interleaving of the requests,
\* the store holds at most one token row per (account, scope) pair.
C1_OneTokenPerAccountAndScope ==
    \A r1 \in tokens, r2 \in tokens :
        (r1.user_id = r2.user_id /\ r1.scope = r2.scope) => r1 = r2

\* Two overlapping logins of one account: the second insert of an access
\* token met the row of the first and was refused.
C1_SecondInsertRefused ==
    /\ resp.h = "login"
    /\ resp.status = StatusInternalServerError
    /\ resp.errors = {<<"error", ErrDuplicateKey>>}
    /\ TokensOf(resp.uid, TokenScopeAccess) # {}

\* C2: registration is all-or-nothing: when a registration has failed after
\* its account insert (it answered with a server error), no account,
\* permission or token row it created remains in the store.
C2_RegistrationAllOrNothing ==
    (resp.h = "register" /\ resp.status = StatusInternalServerError) =>
        /\ resp.uid \notin UserIds(users)
        /\ PermissionModel_Get(perms, resp.uid) = {}
        /\ \A r \in tokens : r.user_id # resp.uid

\* C3: no account is activated while an unexpired activation-scope token of
\* that account is stored and redeemable.  Stated on the states in which no
\* request is in flight, where a workflow cannot be half-way.
C3_NoActivatedAccountWithLiveActivationToken ==
    Quiescent =>
        \A r \in tokens :
            (/\ r.scope = TokenScopeActivation
             /\ r.expiry > now
             /\ UserModel_GetToken(users, tokens, TokenScopeActivation, r.hash, now).err = ErrNil)
            => ~users[r.user_id].activated

\* C4: when login or refresh has failed with a server error, the account's
\* tokens are a whole pair: it holds an access row exactly when it holds a
\* refresh row, and after a failed refresh (whose pre-state held the pair) it
\* holds both.
C4_LoginRefreshLeaveAWholePair ==
    (resp.h \in {"login", "refresh"} /\ resp.status = StatusInternalServerError) =>
        /\ TokensOf(resp.uid, TokenScopeAccess) # {} <=> TokensOf(resp.uid, TokenScopeRefresh) # {}
        /\ resp.h = "refresh" => TokensOf(resp.uid, TokenScopeRefresh) # {}

UsernameTaken(username) == \E i \in UserIds(users) : users[i].username = username

EmailTaken(email) == \E i \in UserIds(users) : CiText(users[i].email) = CiText(email)

Rejected(r, field, message) ==
    r.status = StatusUnprocessableEntity /\ r.errors = {<<field, message>>}

\* C5 (as amended): a registration with well-formed input whose username is
\* that of an existing account is rejected with an error on the field
\* username; one whose username is new and whose email is that of an existing
\* account is rejected with an error on the field email; neither adds a row
\* to the account, token or permission tables.
C5_DuplicateRegistrationRejected ==
    [][\A p \in Procs, username \in RegisterUsernames, email \in RegisterEmails,
          plain \in RegisterPasswords :
          (RegisterStart(p, username, email, plain) /\ Valid(ValidateUser(username, email, plain))) =>
              /\ UsernameTaken(username) =>
                     /\ Rejected(resp', "username", "a user with this username already exists")
                     /\ store' = store
              /\ (EmailTaken(email) /\ ~UsernameTaken(username)) =>
                     /\ Rejected(resp', "email", "a user with this email address already exists")
                     /\ store' = store]_vars

\* A registration with a new username and a taken email was rejected.
C5_EmailConflictAnswered ==
    /\ resp.h = "register"
    /\ Rejected(resp, "email", "a user with this email address already exists")
    /\ Len(users) = 1

\* C5 (as stated): a registration whose username (resp. email) is that of an
\* existing account is rejected with an error on the field username (resp.
\* email) and adds no row.
C5_ErrorOnEachTakenField ==
    [][\A p \in Procs, username \in RegisterUsernames, email \in RegisterEmails,
          plain \in RegisterPasswords :
          (RegisterStart(p, username, email, plain) /\ Valid(ValidateUser(username, email, plain))) =>
              /\ UsernameTaken(username) =>
                     /\ resp'.status = StatusUnprocessableEntity
                     /\ \E e \in resp'.errors : e[1] = "username"
                     /\ store' = store
              /\ EmailTaken(email) =>
                     /\ resp'.status = StatusUnprocessableEntity
                     /\ \E e \in resp'.errors : e[1] = "email"
                     /\ store' = store]_vars

\* C6: after a successful registration the new account is stored
\* unactivated with version 1, exactly one activation-scope token owned by
\* it is stored (the one whose plaintext the response carries), and its
\* permission set is exactly {read}.
C6_RegisteredAccount ==
    (resp.h = "register" /\ resp.status = StatusCreated) =>
        /\ resp.uid \in UserIds(users)
        /\ users[resp.uid].activated = FALSE
        /\ users[resp.uid].version = 1
        /\ Cardinality(TokensOf(resp.uid, TokenScopeActivation)) = 1
        /\ {r \in tokens : r.user_id = resp.uid} =
               {[hash |-> HashToken(resp.out[1]), user_id |-> resp.uid,
                 expiry |-> now + ActivationTokenTime, scope |-> TokenScopeActivation]}
        /\ PermissionModel_Get(perms, resp.uid) = {PermissionReadUser}

\* A second account has just been registered.
C6_RegistrationAnswered ==
    resp.h = "register" /\ resp.status = StatusCreated /\ resp.uid = 2

(***************************************************************************)
(* Properties of activation and of token lookup.                           *)
(***************************************************************************)
\* C7: whenever the presented token hashes to a stored, unexpired
\* activation-scope token (the lookup resolved an account), the activation
\* workflow succeeds and afterwards the owning account is activated, holds
\* the write capability, and has no activation token row.
C7_ActivationSucceeds ==
    (resp.h = "activate" /\ resp.uid # 0) =>
        /\ resp.status = StatusOK
        /\ users[resp.uid].activated
        /\ Include(PermissionModel_Get(perms, resp.uid), PermissionWriteUser)
        /\ TokensOf(resp.uid, TokenScopeActivation) = {}

\* C8: an activation token consumed by a successful activation is
\* single-use: no lookup resolves it any more, and submitting it again is
\* answered with the invalid-or-expired-token error and changes no stored
\* row.
C8_ConsumedTokenIsSingleUse ==
    /\ [](\A tok \in consumed :
              UserModel_GetToken(users, tokens, TokenScopeActivation, HashToken(tok), now).err
                  = ErrNotFound)
    /\ [][\A p \in Procs, tok \in consumed :
              ActivateStart(p, tok) =>
                  /\ Rejected(resp', "token", "invalid or expired activation token")
                  /\ store' = store]_vars

\* A consumed activation token was submitted again and refused.
C8_ConsumedTokenResubmitted ==
    /\ resp.h = "activate"
    /\ resp.tok \in consumed
    /\ Rejected(resp, "token", "invalid or expired activation token")

\* C9: for every scope, once a stored token's expiry is not later than now,
\* UserModel.GetToken by its scope and hash returns NotFound, exactly what
\* it returns for a never-issued token, while TokenModel.Get(account, scope)
\* still returns the stored row.
C9_ExpiredTokenLooksNeverIssued ==
    \A r \in tokens :
        r.expiry <= now =>
            /\ UserModel_GetToken(users, tokens, r.scope, r.hash, now).err = ErrNotFound
            /\ UserModel_GetToken(users, tokens, r.scope, r.hash, now)
                   = UserModel_GetToken(users, tokens, r.scope, HashToken(Unissued), now)
            /\ TokenModel_Get(tokens, r.user_id, r.scope) = [err |-> ErrNil, token |-> r]

\* Tokens of three scopes are stored and have expired, one of them at this
\* very instant.
C9_ExpiredTokensStored ==
    /\ Cardinality({r.scope : r \in {x \in tokens : x.expiry <= now}}) >= 3
    /\ \E r \in tokens : r.expiry = now

\* C10: tokens are scope-bound: the hash of a stored token never resolves an
\* account under a scope other than the one it was minted under; an access
\* token sent to the refresh endpoint is rejected as an invalid refresh
\* token and the store is left unchanged.
C10_TokensAreScopeBound ==
    /\ [](\A r \in tokens : \A scope \in Scopes \ {r.scope} :
              UserModel_GetToken(users, tokens, scope, r.hash, now).err = ErrNotFound)
    /\ [][\A p \in Procs, tok \in Presentable :
              (/\ RefreshStart(p, tok)
               /\ \E r \in tokens : r.hash = HashToken(tok) /\ r.scope # TokenScopeRefresh) =>
                  /\ resp'.status = StatusUnauthorized
                  /\ resp'.errors = {<<"error", "unknown or invalid refresh token">>}
                  /\ store' = store]_vars

\* A stored, unexpired access token was sent to the refresh endpoint and
\* refused.
C10_AccessTokenRefusedByRefresh ==
    /\ resp.h = "refresh"
    /\ resp.status = StatusUnauthorized
    /\ \E r \in tokens :
           r.hash = HashToken(resp.tok) /\ r.scope = TokenScopeAccess /\ r.expiry > now

(***************************************************************************)
(* Properties of login, refresh and logout.                                *)
(***************************************************************************)
HashesOf(uid, scope) == {r.hash : r \in TokensOf(uid, scope)}

\* The disclosed plaintexts that resolve account uid under scope.
Resolving(uid, scope) ==
    {t \in known : LET g == UserModel_GetToken(users, tokens, scope, HashToken(t), now)
                   IN g.err = ErrNil /\ g.user.id = uid}

\* C11: after a successful login (also of an account that already had an
\* access or refresh token stored, expired or not) the account's stored
\* access and refresh rows are exactly one each, the two the response
\* carries, and no access token issued earlier resolves the account.
C11_LoginReplacesThePair ==
    (resp.h = "login" /\ resp.status = StatusOK) =>
        /\ Len(resp.out) = 2
        /\ Cardinality(TokensOf(resp.uid, TokenScopeAccess)) = 1
        /\ Cardinality(TokensOf(resp.uid, TokenScopeRefresh)) = 1
        /\ HashesOf(resp.uid, TokenScopeAccess) = {HashToken(resp.out[1])}
        /\ HashesOf(resp.uid, TokenScopeRefresh) = {HashToken(resp.out[2])}
        /\ Resolving(resp.uid, TokenScopeAccess) \subseteq {resp.out[1]}

\* bob, whose store held the pair (2, 3), has logged in again after his old
\* access token expired.
C11_SecondLoginAnswered ==
    /\ resp.h = "login"
    /\ resp.status = StatusOK
    /\ resp.uid = 1
    /\ resp.out = <<5, 6>>
    /\ now >= AuthTokenTime

\* C12: after a successful refresh the presented refresh token and the
\* previous access token are no longer stored, the account holds exactly one
\* access and one refresh row (the two the response carries), and presenting
\* the old refresh token again is answered as an invalid refresh token.
C12_RefreshRotatesThePair ==
    /\ []((resp.h = "refresh" /\ resp.status = StatusOK) =>
              /\ \A r \in tokens : r.hash # HashToken(resp.tok)
              /\ Len(resp.out) = 2
              /\ Cardinality(TokensOf(resp.uid, TokenScopeAccess)) = 1
              /\ Cardinality(TokensOf(resp.uid, TokenScopeRefresh)) = 1
              /\ HashesOf(resp.uid, TokenScopeAccess) = {HashToken(resp.out[1])}
              /\ HashesOf(resp.uid, TokenScopeRefresh) = {HashToken(resp.out[2])}
              /\ Resolving(resp.uid, TokenScopeAccess) \subseteq {resp.out[1]}
              /\ Resolving(resp.uid, TokenScopeRefresh) \subseteq {resp.out[2]})
    /\ [][\A p \in Procs, tok \in Presentable :
              (RefreshStart(p, tok) /\ <<"refresh", tok>> \in redeemed) =>
                  /\ resp'.status = StatusUnauthorized
                  /\ resp'.errors = {<<"error", "unknown or invalid refresh token">>}
                  /\ store' = store]_vars

\* A refresh token that a successful refresh rotated out was presented
\* again and refused.
C12_OldRefreshTokenReplayed ==
    /\ resp.h = "refresh"
    /\ resp.status = StatusUnauthorized
    /\ <<"refresh", resp.tok>> \in redeemed

OtherTokens(toks, uid) == {r \in toks : r.user_id # uid}

\* C13: after a successful logout by an authenticated account no access and
\* no refresh row exists for that account and the access token it presented
\* (like every access token issued to it) no longer authenticates; no step
\* of a logout changes a token row of another account.
C13_LogoutRemovesThePair ==
    /\ []((resp.h = "logout" /\ resp.status = StatusOK /\ resp.uid # 0) =>
              /\ TokensOf(resp.uid, TokenScopeAccess) = {}
              /\ TokensOf(resp.uid, TokenScopeRefresh) = {}
              /\ ~authenticate(resp.tok).next
              /\ Resolving(resp.uid, TokenScopeAccess) = {})
    /\ [][\A p \in Procs :
              (loc[p].h = "logout" /\ pc[p] # pc'[p]) =>
                  OtherTokens(tokens', loc[p].uid) = OtherTokens(tokens, loc[p].uid)]_vars

\* bob has logged out while amy's account holds a token row.
C13_LogoutAnswered ==
    /\ resp.h = "logout"
    /\ resp.status = StatusOK
    /\ resp.uid = 1
    /\ OtherTokens(tokens, 1) # {}

\* C14: a logout request that presents no bearer credential is rejected: it
\* is never answered with success.
C14_AnonymousLogoutRejected ==
    (resp.h = "logout" /\ resp.tok = NoHeader) => resp.status # StatusOK

(***************************************************************************)
(* Properties of the account row: version, activation, password.           *)
(***************************************************************************)
\* C15: UserModel.Update called with a version that differs from the stored
\* row's version returns ErrNotFound and leaves the row (its version, email
\* and password hash) unchanged; a handler whose working copy has gone stale
\* changes no account row.
C15_StaleUpdateIsNotFound ==
    /\ [](\A id \in UserIds(users) :
              \A version \in (0..(users[id].version + 1)) \ {users[id].version} :
                  \A email \in {BobMail, BobMailUpper, AmyMail}, plain \in {Pw1, Pw2} :
                      LET upd == UserModel_Update(users, id, email, PasswordSet(plain), version)
                      IN upd.err = ErrNotFound /\ upd.users = users)
    /\ [][\A p \in Procs :
              (/\ pc[p] \in {"password_update", "account_update"}
               /\ pc'[p] # pc[p]
               /\ loc[p].user.version # users[loc[p].uid].version) =>
                  /\ users' = users
                  /\ resp'.errors = {<<"error", IF loc[p].h = "password"
                                                THEN "invalid authentication credentials"
                                                ELSE ErrNotFound>>}]_vars

\* Of two overlapping update-account requests the second wrote with the
\* version the first had already replaced.
C15_StaleWriteRefused ==
    /\ resp.h = "account"
    /\ resp.status = StatusInternalServerError
    /\ resp.errors = {<<"error", ErrNotFound>>}

\* C16: every successful Update performed by the update-password and
\* update-account workflows increments the stored version by exactly 1, the
\* version changes in no other way, and no step ever decreases it.
C16_UpdateIncrementsVersion ==
    [][\A id \in UserIds(users) :
           /\ id \in UserIds(users')
           /\ users'[id].version >= users[id].version
           /\ \A p \in Procs :
                  (/\ loc[p].uid = id
                   /\ \/ pc[p] = "password_update" /\ pc'[p] = "password_delete"
                      \/ pc[p] = "account_update" /\ pc'[p] = "account_get_token") =>
                      users'[id].version = users[id].version + 1
           /\ (\/ users'[id].version # users[id].version
               \/ users'[id].email # users[id].email
               \/ users'[id].password_hash # users[id].password_hash) =>
                  /\ users'[id].version = users[id].version + 1
                  /\ \E p \in Procs : loc[p].uid = id /\ pc[p] \in {"password_update", "account_update"}]_vars

\* An account has been updated twice.
C16_UpdatedTwice ==
    \E id \in UserIds(users) : users[id].version = 3

\* C17: the account version increments exactly once per successful mutation
\* of the account row, the activation workflow's change of the activated
\* flag from false to true included: a step that activates an account
\* leaves its version one higher.
C17_ActivationIncrementsVersion ==
    [][\A id \in UserIds(users) :
           (/\ id \in UserIds(users')
            /\ ~users[id].activated
            /\ users'[id].activated) =>
               users'[id].version = users[id].version + 1]_vars

\* C18: after a successful update-account that changes the email the stored
\* account has activated = false: the step of updateAccountHandler on which
\* Users.Update succeeds and the stored email changes leaves the stored
\* account not activated.
C18_EmailChangeDeactivates ==
    [][\A p \in Procs :
           (/\ loc[p].h = "account"
            /\ pc[p] = "account_update"
            /\ pc'[p] = "account_get_token"
            /\ users'[loc[p].uid].email # users[loc[p].uid].email) =>
               ~users'[loc[p].uid].activated]_vars

\* C19: on a successful password-reset request the plaintext of the reset
\* token goes only to the mail collaborator: the response to the
\* unauthenticated requester discloses no token.
C19_ResetResponseCarriesNoToken ==
    (resp.h = "reset" /\ resp.status = StatusOK) => resp.out = <<>>

\* The steps of updatePasswordHandler after a reset token was accepted.  On
\* the step on which Users.Update succeeds the stored hash matches the new
\* password, no longer matches the password stored before (always when
\* anyOld, otherwise when the new password differs from it) and the version
\* is one higher; on the step that answers 200 the stored hash still matches
\* the new password, the version is one above the version the handler read,
\* and the account has no reset row and no row carries the presented hash.
PasswordReplaced(anyOld) ==
    \A p \in Procs :
        LET id == loc[p].uid
            old == users[id].password_hash[3]
        IN /\ (loc[p].h = "password" /\ pc[p] = "password_update" /\ pc'[p] = "password_delete") =>
                  /\ PasswordCompare(users'[id].password_hash, loc[p].plain)
                  /\ (anyOld \/ old # loc[p].plain) => ~PasswordCompare(users'[id].password_hash, old)
                  /\ users'[id].version = users[id].version + 1
           /\ (loc[p].h = "password" /\ pc[p] = "commit" /\ pc'[p] = "idle") =>
                  /\ resp'.status = StatusOK
                  /\ PasswordCompare(users'[id].password_hash, loc[p].plain)
                  /\ users'[id].version = loc[p].user.version + 1
                  /\ ~\E r \in tokens' :
                         \/ r.user_id = id /\ r.scope = TokenScopeResetPwd
                         \/ r.hash = HashToken(loc[p].tok)

\* A reset token that a successful update-password was given is refused
\* with 401 when it is presented again with a policy-passing password.
RedeemedResetTokenRefused ==
    \A p \in Procs, tok \in Presentable, plain \in NewPasswords :
        (/\ PasswordStart(p, tok, plain)
         /\ <<"password", tok>> \in redeemed
         /\ Valid(ValidatePassword(plain))) =>
            /\ resp'.status = StatusUnauthorized
            /\ resp'.errors = {<<"error", "invalid authentication credentials">>}
            /\ users' = users
            /\ tokens' = tokens

\* C20 as stated: after a successful update-password the stored hash matches
\* the new password and no longer the old one, the version is one higher,
\* the reset row is deleted and resubmitting the token is rejected as
\* invalid credentials.
C20_PasswordReplacedOldRefused ==
    [][PasswordReplaced(TRUE) /\ RedeemedResetTokenRefused]_vars

\* C20 amended: as stated, with "no longer the old one" only for a new
\* password that differs from the old one.
C20_PasswordReplacedTokenSpent ==
    [][PasswordReplaced(FALSE) /\ RedeemedResetTokenRefused]_vars

\* A redeemed reset token has been presented again with a policy-passing
\* password and refused, the account carrying the password of the redemption.
C20_RedeemedTokenResubmitted ==
    /\ resp.h = "password"
    /\ resp.status = StatusUnauthorized
    /\ <<"password", resp.tok>> \in redeemed
    /\ \E id \in UserIds(users) : users[id].version = 2 /\ PasswordCompare(users[id].password_hash, Pw2)

\* C21: when the account row's version changes between update-password's
\* read of the account and its version-checked Update, the request ends with
\* the invalid-credentials response and it changes neither the account rows
\* (password hash, version) nor the token rows (the reset token included):
\* its two reading steps write nothing and its Update step, taken with a
\* stale working copy, answers 401 and writes nothing.
C21_StalePasswordUpdateIsInvalidCredentials ==
    [][\A p \in Procs :
           /\ (/\ pc'[p] \in {"password_get_user", "password_update"}
               /\ pc'[p] # pc[p]) =>
                  users' = users /\ tokens' = tokens /\ perms' = perms
           /\ (/\ loc[p].h = "password"
               /\ pc[p] = "password_update"
               /\ pc'[p] # pc[p]
               /\ loc[p].user.version # users[loc[p].uid].version) =>
                  /\ resp'.h = "password"
                  /\ resp'.status = StatusUnauthorized
                  /\ resp'.errors = {<<"error", "invalid authentication credentials">>}
                  /\ users' = users
                  /\ tokens' = tokens
                  /\ perms' = perms]_vars

\* An update-password has been answered 401 although the reset token it
\* presented is still stored: the account was updated under it.
C21_StalePasswordUpdateAnswered ==
    /\ resp.h = "password"
    /\ resp.status = StatusUnauthorized
    /\ \E r \in tokens :
           /\ r.hash = HashToken(resp.tok)
           /\ r.scope = TokenScopeResetPwd
           /\ users[r.user_id].version = 2

\* C22: PermissionModel.Add is idempotent: the Add of activateUserHandler,
\* called for an account that already holds the capability, succeeds (the
\* handler goes on to delete the token) and leaves the grant rows as they
\* were.
C22_RepeatedGrantSucceeds ==
    [][\A p \in Procs :
           (/\ pc[p] = "act_perm"
            /\ pc'[p] # pc[p]
            /\ <<loc[p].uid, PermissionWriteUser>> \in perms) =>
               /\ PermissionModel_Add(perms, loc[p].uid, {PermissionWriteUser}).err = ErrNil
               /\ pc'[p] = "act_delete"
               /\ perms' = perms]_vars

\* C23: permission grants are only ever added: no step removes a grant of
\* an account; the grant rows change only on the Permissions.Add of a
\* registration, which adds user:read for the new account, and on the
\* Permissions.Add of an activation, which adds user:write for the
\* activated account; and every grant belongs to a stored account.
C23_GrantsOnlyGrow ==
    /\ [](\A g \in perms : g[1] \in UserIds(users))
    /\ [][/\ perms \subseteq perms'
          /\ \A p \in Procs :
                 /\ (pc[p] = "reg_perm" /\ pc'[p] = "reg_token") =>
                        perms' = perms \cup {<<loc[p].uid, PermissionReadUser>>}
                 /\ (pc[p] = "act_perm" /\ pc'[p] = "act_delete") =>
                        perms' = perms \cup {<<loc[p].uid, PermissionWriteUser>>}
          /\ perms' # perms =>
                 \E p \in Procs : \/ pc[p] = "reg_perm" /\ pc'[p] = "reg_token"
                                  \/ pc[p] = "act_perm" /\ pc'[p] = "act_delete"]_vars

\* An account holds the grant of its registration and the grant of its
\* activation, and a second account holds the grant of its registration.
C23_ReadThenWriteGranted ==
    /\ Quiescent
    /\ \E id \in UserIds(users) :
           /\ users[id].activated
           /\ PermissionModel_Get(perms, id) = {PermissionReadUser, PermissionWriteUser}
    /\ \E id \in UserIds(users) : PermissionModel_Get(perms, id) = {PermissionReadUser}

\* C24: two concurrent logins with correct credentials for the same account
\* tolerate the race on the (account, scope) uniqueness of tokens: a login
\* answered while another login of the same account is in flight does not
\* end in a server error.
C24_ConcurrentLoginsTolerated ==
    (/\ resp.h = "login"
     /\ \E q \in Procs : loc[q].h = "login" /\ loc[q].uid = resp.uid) =>
        resp.status # StatusInternalServerError

(***************************************************************************)
(* Background tasks and shutdown.                                          *)
(***************************************************************************)
\* The plaintexts minted so far by the requests still in flight.
Uncommitted == UNION {Elems(loc[p].out) : p \in {q \in Procs : pc[q] # "idle"}}

C26_ServeReturnsAfterTasksDrained ==
    srv.main = "returned" => (tasks = {} /\ wg = 0)

\* C27: a background task that fails or panics is contained: the counter
\* always equals the number of tasks in flight (one increment per started
\* task, one decrement per ended task); the step on which a task ends with
\* an error or a recovered panic decrements the counter by one, changes no
\* stored row, no handler and no response, and leaves the process serving;
\* and the step that starts a task is the one on which the handler writes
\* its response and returns, without waiting for the task.
C27_FailedTaskIsContained ==
    /\ [](wg = Cardinality(tasks))
    /\ [][/\ \A m \in sends' \ sends :
                 m.result \in {"error", "panic"} =>
                     /\ wg' = wg - 1
                     /\ tasks' = tasks \ {MailTask(m.h, m.uid, m.tok)}
                     /\ UNCHANGED <<users, perms, tokens, known, pc, loc, resp, srv>>
          /\ \A t \in tasks' \ tasks :
                 /\ wg' = wg + 1
                 /\ resp = NoResp
                 /\ resp'.status \in {StatusOK, StatusCreated}
                 /\ \E p \in Procs : pc[p] # "idle" /\ pc'[p] = "idle"]_vars

\* After one mail task panicked and another failed, a further request has
\* been answered while its own mail task is still in flight.
C27_AnsweredAfterPanic ==
    /\ \E m \in sends : m.result = "panic"
    /\ \E m \in sends : m.result = "error"
    /\ resp.status = StatusOK
    /\ tasks = {MailTask("reset", resp.uid, resp.out[1])}
    /\ wg = 1
    /\ srv = Serving

(***************************************************************************)
(* The middleware chain.                                                   *)
(***************************************************************************)
\* The stored, unexpired access rows whose hash is that of the presented
\* bearer plaintext.
LiveAccessRows(header) ==
    {r \in tokens : r.hash = HashToken(header) /\ r.scope = TokenScopeAccess /\ r.expiry > now}

\* C28: authenticate passes the anonymous identity on when no Authorization
\* header is presented, passes the owning account on when a stored unexpired
\* access token is presented, and in every other case (header that is not a
\* bearer credential, wrong-length, unknown or expired token) rejects the
\* request without invoking the next handler: the handlers behind it answer
\* 403 on their first step and change nothing.
C28_AuthenticatePassesOrRejects ==
    /\ [](\A header \in AuthHeaders :
              LET a == authenticate(header)
              IN IF header = NoHeader
                 THEN a.next /\ IsAnonymous(a.user)
                 ELSE IF LiveAccessRows(header) # {}
                 THEN /\ a.next
                      /\ \A r \in LiveAccessRows(header) :
                             /\ a.user.id = r.user_id
                             /\ a.user.username = users[r.user_id].username
                             /\ a.user.activated = users[r.user_id].activated
                 ELSE ~a.next)
    /\ [][\A p \in Procs, header \in AuthHeaders :
              (/\ LogoutStart(p, header) \/ AccountStart(p, header)
               /\ ~authenticate(header).next) =>
                  /\ resp'.status = StatusForbidden
                  /\ resp'.errors = {<<"error", "invalid or missing authentication token">>}
                  /\ pc'[p] = "idle"
                  /\ UNCHANGED <<users, perms, tokens>>]_vars

\* A request presenting an access token that is stored but has expired has
\* been rejected.
C28_ExpiredAccessTokenRejected ==
    /\ resp.status = StatusForbidden
    /\ resp.errors = {<<"error", "invalid or missing authentication token">>}
    /\ resp.tok \in known
    /\ \E r \in tokens :
           /\ r.hash = HashToken(resp.tok)
           /\ r.scope = TokenScopeAccess
           /\ r.expiry <= now

\* The permissions the route of handler h requires.
Required(h) == IF h = "account" THEN {PermissionWriteUser, PermissionReadUser} ELSE {PermissionReadUser}

C30_FailedLoginChangesNothing ==
    [][\A p \in Procs, username \in LoginUsernames, plain \in LoginPasswords :
           (/\ LoginStart(p, username, plain)
            /\ Valid(ValidateLoginUser(username, plain))
            /\ \A id \in UserIds(users) :
                   users[id].username = username => users[id].password_hash # PasswordSet(plain)) =>
               /\ resp'.h = "login"
               /\ resp'.status = StatusUnauthorized
               /\ resp'.errors = {<<"error", "invalid authentication credentials">>}
               /\ pc'[p] = "idle"
               /\ UNCHANGED <<users, perms, tokens, nextTok>>]_vars

\* A login with a wrong password for an account that holds a session has
\* been refused, and a login for an unknown username can be made.
C30_WrongPasswordRefused ==
    /\ resp.h = "login"
    /\ resp.status = StatusUnauthorized
    /\ resp.uid \in UserIds(users)
    /\ TokensOf(resp.uid, TokenScopeAccess) # {}
    /\ TokensOf(resp.uid, TokenScopeRefresh) # {}
    /\ \E username \in LoginUsernames : \A id \in UserIds(users) : users[id].username # username

(***************************************************************************)
(* Properties of the error responses, of the validator and of the token    *)
(* statements.                                                             *)
(***************************************************************************)
\* What a client sees of a response: its status and its body.
Body(r) == [status |-> r.status, errors |-> r.errors, out |-> r.out]

\* C31: a well-formed login whose username is unknown and one whose
\* username exists but whose password does not match are answered with the
\* same status and the same message, 401 "invalid authentication
\* credentials", whatever the store holds: the response does not tell
\* whether the account exists.
C31_RefusedLoginsAreIndistinguishable ==
    [][\A p \in Procs, username \in LoginUsernames, plain \in LoginPasswords :
          LET g == UserModel_GetByUsername(users, username)
          IN (/\ LoginStart(p, username, plain)
              /\ Valid(ValidateLoginUser(username, plain))
              /\ \/ g.err = ErrNotFound
                 \/ g.user.password_hash # PasswordSet(plain))
             => Body(resp') = [status |-> StatusUnauthorized,
                               errors |-> {<<"error", "invalid authentication credentials">>},
                               out |-> <<>>]]_vars

\* A login for a username that is not registered was refused on a store
\* that holds another account.
C31_UnknownUsernameRefused ==
    /\ resp.h = "login"
    /\ resp.status = StatusUnauthorized
    /\ resp.uid = 0
    /\ Len(users) >= 1
    /\ UserModel_GetByUsername(users, Amy).err = ErrNotFound

\* C32: an update-account request that supplies neither an email nor a
\* password is rejected by the handler, and no step of such a request
\* changes the users table (the account's row and its version) or the
\* tokens table.
C32_EmptyUpdateRejected ==
    [][\A p \in Procs :
          /\ \A param \in LoginUsernames :
                 AccountPermissions(p, param, Empty, Empty)
                     => /\ pc'[p] = "idle"
                        /\ resp'.status \in {StatusForbidden, StatusUnprocessableEntity}
          /\ (loc[p].h = "account" /\ loc[p].email = Empty /\ loc[p].plain = Empty)
                 => (users' = users /\ tokens' = tokens)]_vars

\* C33: with one request at a time, the step of a password-reset request
\* that mints the token always succeeds, whether or not the account held a
\* reset token (expired or not) when the request began; right after it the
\* account holds exactly one reset-scope row, that of the plaintext just
\* minted, and no other plaintext resolves the account in the reset scope.
\* The steps before it never answer with an error once the account was
\* found.
C33_ResetLeavesOnlyTheNewToken ==
    [][\A p \in Procs :
          /\ ResetCreate(p) =>
                 /\ resp'.status = StatusOK
                 /\ resp'.out = <<nextTok>>
                 /\ {r \in tokens' : r.user_id = loc[p].uid /\ r.scope = TokenScopeResetPwd}
                        = {NewToken(loc[p].uid, TokenScopeResetPwd, nextTok, now)}
                 /\ \A old \in (Presentable \cup 1..nextTok) \ {nextTok} :
                        LET g == UserModel_GetToken(users', tokens', TokenScopeResetPwd, HashToken(old), now')
                        IN g.err = ErrNotFound \/ g.user.id # loc[p].uid
          /\ (ResetGet(p) \/ ResetDelete(p)) => resp' = NoResp]_vars

\* A reset request succeeded for an account to which an earlier request had
\* mailed a reset token that no password update has redeemed: the earlier
\* plaintext no longer resolves the account.
C33_SecondResetAnswered ==
    /\ resp.h = "reset"
    /\ resp.status = StatusOK
    /\ \E s \in sends :
           /\ s.h = "reset"
           /\ s.uid = resp.uid
           /\ s.tok # resp.out[1]
           /\ <<"password", s.tok>> \notin redeemed
           /\ UserModel_GetToken(users, tokens, TokenScopeResetPwd, HashToken(s.tok), now).err = ErrNotFound
    /\ Cardinality(TokensOf(resp.uid, TokenScopeResetPwd)) = 1

\* The Tokens.Delete statements of the handlers.
DeleteStatement(p) ==
    \/ ActivateDelete(p)
    \/ LoginDeleteAccess(p)
    \/ LoginDeleteRefresh(p)
    \/ RefreshDeleteRefresh(p)
    \/ RefreshDeleteAccess(p)
    \/ LogoutDeleteAccess(p)
    \/ LogoutDeleteRefresh(p)
    \/ ResetDelete(p)
    \/ PasswordDelete(p)
    \/ AccountDelete(p)

\* C34: for every store the program reaches and every account id and scope,
\* TokenModel.Delete removes exactly the rows of that account and scope: it
\* keeps every row of another account or another scope, a second call in a
\* row changes nothing, and a call that finds no row leaves the table as it
\* was.  No Delete statement of a handler ends the request with an error,
\* whether or not it found a row.
C34_DeleteIsIdempotent ==
    /\ [](\A uid \in 0..(Len(users) + 1), scope \in Scopes :
            LET once == TokenModel_Delete(tokens, uid, scope)
            IN /\ once = tokens \ TokensOf(uid, scope)
               /\ TokenModel_Delete(once, uid, scope) = once
               /\ TokensOf(uid, scope) = {} => once = tokens
               /\ \A r \in tokens : (r.user_id # uid \/ r.scope # scope) => r \in once)
    /\ [][\A p \in Procs :
            DeleteStatement(p) =>
                /\ resp' = NoResp
                /\ pc'[p] # "idle"
                /\ \E scope \in Scopes :
                       /\ tokens' = tokens \ TokensOf(loc[p].uid, scope)
                       /\ TokensOf(loc[p].uid, scope) = {} => tokens' = tokens]_vars

\* The table holds rows of two accounts and two rows of one account, and a
\* logout has run Delete twice for an identity that holds no token: both
\* calls returned without error and removed nothing.
C34_DeletedNothingTwice ==
    /\ \E r1, r2 \in tokens : r1.user_id # r2.user_id
    /\ \E r1, r2 \in tokens : r1.user_id = r2.user_id /\ r1.scope # r2.scope
    /\ \E p \in Procs :
           /\ pc[p] = "commit"
           /\ loc[p].h = "logout"
           /\ TokensOf(loc[p].uid, TokenScopeAccess) = {}
           /\ TokensOf(loc[p].uid, TokenScopeRefresh) = {}

\* The password policy: 8 to 72 characters with at least one uppercase
\* letter, one lowercase letter, one digit and one symbol.
MeetsPolicy(plain) ==
    /\ Len(plain) >= 8
    /\ Len(plain) <= 72
    /\ \E i \in 1..Len(plain) : plain[i] \in Upper
    /\ \E i \in 1..Len(plain) : plain[i] \in Lower
    /\ \E i \in 1..Len(plain) : plain[i] \in Digit
    /\ \E i \in 1..Len(plain) : plain[i] \in Symbol

\* The hashes Password.Set yields for the plaintexts that meet the policy.
PolicyHashes ==
    {PasswordSet(plain) : plain \in {q \in RegisterPasswords \cup NewPasswords \cup UpdatePasswords : MeetsPolicy(q)}}

\* C35: every password hash stored in the users table, and every hash a
\* handler holds in its working copy of an account, is the hash of a
\* plaintext that meets the password policy; the registration,
\* update-password and update-account handlers answer a plaintext that
\* fails the policy before the step in which they call Password.Set, and
\* that step leaves the users table as it was.
C35_OnlyPolicyPasswordsAreHashed ==
    /\ [](/\ \A i \in UserIds(users) : users[i].password_hash \in PolicyHashes
          /\ \A p \in Procs : loc[p].user.password_hash \in PolicyHashes \cup {<<>>})
    /\ [][\A p \in Procs :
            /\ \A username \in RegisterUsernames, email \in RegisterEmails, plain \in RegisterPasswords :
                   (RegisterStart(p, username, email, plain) /\ ~MeetsPolicy(plain))
                       => (pc'[p] = "idle" /\ resp'.status = StatusUnprocessableEntity /\ users' = users)
            /\ \A tok \in Presentable, plain \in NewPasswords :
                   (PasswordStart(p, tok, plain) /\ ~MeetsPolicy(plain))
                       => (pc'[p] = "idle" /\ resp'.status = StatusUnprocessableEntity /\ users' = users)
            /\ \A param \in LoginUsernames, email \in UpdateEmails, plain \in UpdatePasswords :
                   (AccountPermissions(p, param, email, plain) /\ plain # Empty /\ ~MeetsPolicy(plain))
                       => (/\ pc'[p] = "idle"
                           /\ resp'.status \in {StatusForbidden, StatusUnprocessableEntity}
                           /\ users' = users)]_vars

\* An update-account request that carried a password failing the policy
\* was answered with the password field error; the account keeps its hash.
C35_WeakPasswordRefused ==
    /\ resp.h = "account"
    /\ resp.status = StatusUnprocessableEntity
    /\ \E e \in resp.errors : e[1] = "password"
    /\ resp.uid \in UserIds(users)
    /\ users[resp.uid].password_hash = PasswordSet(Pw1)

\* Sequences of up to MaxCalls AddError calls on two fields with two
\* messages each.
MaxCalls == 3

ValidatorCalls ==
    UNION {[1..n -> {"username", "email"} \X {"first message", "other message"}] : n \in 0..MaxCalls}

RECURSIVE AddErrors(_, _)
AddErrors(v, calls) ==
    IF calls = <<>> THEN v ELSE AddErrors(AddError(v, calls[1][1], calls[1][2]), Tail(calls))

\* The index of the first call of the sequence that names the field.
FirstCall(calls, fld) ==
    CHOOSE i \in 1..Len(calls) : calls[i][1] = fld /\ \A j \in 1..(i - 1) : calls[j][1] # fld

\* C36: after any sequence of AddError calls on a new Validator the error
\* map holds at most one message per field, namely the message of the first
\* call that named the field, and nothing else; Check records an error only
\* when its condition is false; Valid() is true exactly when no field has an
\* error.  The error map of every response a handler writes has one message
\* per field, and for a field that fails several checks it is the message of
\* the first check.
C36_FirstErrorPerFieldWins ==
    /\ \A calls \in ValidatorCalls :
           LET v == AddErrors(NewValidator, calls)
               named == {calls[i][1] : i \in 1..Len(calls)}
           IN /\ \A fld \in {"username", "email"} : Cardinality({e \in v : e[1] = fld}) <= 1
              /\ v = {<<fld, calls[FirstCall(calls, fld)][2]>> : fld \in named}
              /\ Valid(v) <=> named = {}
              /\ Valid(v) <=> ~\E e \in v : TRUE
              /\ Check(v, TRUE, "email", "other message") = v
              /\ Check(v, FALSE, "email", "other message") = AddError(v, "email", "other message")
    /\ validateUsername(NewValidator, Empty) = {<<"username", "must be provided">>}
    /\ validateEmail(NewValidator, Empty) = {<<"email", "must be provided">>}
    /\ \A e1, e2 \in resp.errors : e1[1] = e2[1] => e1 = e2

\* A password-reset request with an empty email failed both checks of
\* validateEmail and was answered with the message of the first one only.
C36_EmptyEmailAnswered ==
    /\ resp.h = "reset"
    /\ resp.status = StatusUnprocessableEntity
    /\ resp.errors = {<<"email", "must be provided">>}
    /\ ~EmailRX(Empty)

(***************************************************************************)
(* Properties of overlapping requests that present the same token.         *)
(***************************************************************************)
\* C37: whatever the interleaving of the refresh requests, a refresh
\* request never returns success for a refresh token that another refresh
\* request has already returned success for.
C37_RefreshTokenRedeemedOnce ==
    [][\A p \in Procs :
          (Commit(p) /\ loc[p].h = "refresh") => <<"refresh", loc[p].tok>> \notin redeemed]_vars

\* C38: whatever the interleaving of the update-password requests, the
\* Users.Update of a request replaces the account's password hash only if
\* no other request that presented the same reset token has replaced it
\* before.
C38_ResetTokenChangesPasswordOnce ==
    [][\A p \in Procs :
          (PasswordUpdate(p) /\ users' # users) =>
              /\ <<"password", loc[p].tok>> \notin redeemed
              /\ \A q \in Procs \ {p} :
                     ~(/\ loc[q].h = "password"
                       /\ loc[q].tok = loc[p].tok
                       /\ pc[q] \in {"password_delete", "commit"})]_vars

\* C39: whatever the interleaving of the login and refresh requests, when
\* such a request commits and answers with its token pair, the access row
\* and the refresh row stored for the account are those of the two
\* plaintexts of the response.
C39_ResponsePairIsTheStoredPair ==
    [][\A p \in Procs :
          (Commit(p) /\ loc[p].h \in {"login", "refresh"}) =>
              /\ Len(loc[p].out) = 2
              /\ {r.hash : r \in TokensOf(loc[p].uid, TokenScopeAccess)} = {HashToken(loc[p].out[1])}
              /\ {r.hash : r \in TokensOf(loc[p].uid, TokenScopeRefresh)} = {HashToken(loc[p].out[2])}]_vars

(***************************************************************************)
(* Frame of the update-password workflow.                                  *)
(***************************************************************************)
\* The rows of the tokens table other than the reset row of account uid.
KeptTokens(toks, uid) == {r \in toks : ~(r.user_id = uid /\ r.scope = TokenScopeResetPwd)}

\* C40: no step of an update-password request changes a permission grant,
\* a token row other than the reset row of the account, the number of
\* accounts, or the username, email or activated flag of any account, and
\* it changes no column of another account; every access or refresh
\* plaintext that resolved an account before the step resolves the same
\* account after it.
C40_PasswordUpdateFrame ==
    [][\A p \in Procs :
          /\ \A tok \in Presentable, plain \in NewPasswords :
                 PasswordStart(p, tok, plain) => UNCHANGED store
          /\ (loc[p].h = "password" /\ pc'[p] # pc[p]) =>
                 /\ perms' = perms
                 /\ KeptTokens(tokens', loc[p].uid) = KeptTokens(tokens, loc[p].uid)
                 /\ tokens' \subseteq tokens
                 /\ Len(users') = Len(users)
                 /\ \A i \in UserIds(users) :
                        /\ users'[i].username = users[i].username
                        /\ users'[i].email = users[i].email
                        /\ users'[i].activated = users[i].activated
                        /\ i # loc[p].uid => users'[i] = users[i]
                 /\ \A scope \in {TokenScopeAccess, TokenScopeRefresh}, held \in Presentable :
                        LET before == UserModel_GetToken(users, tokens, scope, HashToken(held), now)
                            after == UserModel_GetToken(users', tokens', scope, HashToken(held), now')
                        IN before.err = ErrNil => after = before]_vars

\* An update-password request has succeeded for bob: his hash and version
\* changed, his reset row is gone, and the access and refresh tokens of the
\* session he opened before still resolve his account.
C40_SessionSurvivesPasswordChange ==
    /\ resp.h = "password"
    /\ resp.status = StatusOK
    /\ users[1].password_hash = PasswordSet(Pw2)
    /\ users[1].version = DefaultVersion + 1
    /\ users[1].email = BobMail
    /\ users[1].activated
    /\ perms = BobPerms
    /\ TokensOf(1, TokenScopeResetPwd) = {}
    /\ UserModel_GetToken(users, tokens, TokenScopeAccess, HashToken(2), now).user.id = 1
    /\ UserModel_GetToken(users, tokens, TokenScopeRefresh, HashToken(3), now).user.id = 1

====
